---- MODULE Spec2Model ----
(***************************************************************************)
(* Model of the schedule acquisition engine of directv-stream-epg          *)
(* (fetch_dtv_schedule.py): window planning, channel batching, the GET     *)
(* retry loop, the multi-channel coverage validator, the per-channel       *)
(* fallback, and the two outputs (schedule_windows.jsonl and               *)
(* dtv_schedule_raw.json).                                                 *)
(*                                                                         *)
(* Time is counted in whole hours since the epoch; channel identifiers     *)
(* are positive integers (their order is the order of sorted()).           *)
(***************************************************************************)
EXTENDS Integers, Sequences, FiniteSets, TLC

(***************************************************************************)
(* Bounds of the model.                                                    *)
(***************************************************************************)
MaxChannels == 3
MaxBatch == 2
MaxRetries == 2
MaxDays == 2
MaxWork == 10
MaxFnDays == 3
MaxFnWindowHours == 30
MaxFnChannels == 7
MaxFnBatch == 4
MaxFnRequested == 10
MaxFnExtra == 2
MaxFnCombine == 3

(***************************************************************************)
(* Program constants.                                                      *)
(***************************************************************************)
HoursPerDay == 24
MsPerHour == 3600000
RetryBackoffDefault == 1
BackoffCapDefault == 20
MinRatioDefault == 75
RatioScale == 100

None == 0
\* an identifier that is in no batch
ForeignId == MaxFnRequested + MaxChannels + 1

(***************************************************************************)
(* Generic helpers.                                                        *)
(***************************************************************************)
Min(a, b) == IF a <= b THEN a ELSE b

Max(a, b) == IF a >= b THEN a ELSE b

RECURSIVE Pow2(_)
Pow2(k) == IF k <= 0 THEN 1 ELSE 2 * Pow2(k - 1)

RECURSIVE Flatten(_)
Flatten(ss) == IF ss = <<>> THEN <<>> ELSE Head(ss) \o Flatten(Tail(ss))

Range(s) == {s[i] : i \in DOMAIN s}

\* sorted(S) of a set of integers
RECURSIVE SortedSeq(_)
SortedSeq(S) ==
    IF S = {} THEN <<>>
    ELSE LET m == CHOOSE x \in S : \A y \in S : x <= y
         IN <<m>> \o SortedSeq(S \ {m})

Reverse(s) == [i \in DOMAIN s |-> s[Len(s) + 1 - i]]

\* dict[key] = value on a JSON object
SetKey(d, k, v) == (k :> v) @@ d

(***************************************************************************)
(* to_ms                                                                   *)
(***************************************************************************)
to_ms(d) == d * MsPerHour

(***************************************************************************)
(* math.ceil(a / b) on Python numbers, b # 0 (floor division rounds        *)
(* towards minus infinity, as \div does for a positive divisor).           *)
(***************************************************************************)
PyCeilDiv(a, b) == IF b > 0 THEN -((-a) \div b) ELSE -(a \div (-b))

(***************************************************************************)
(* chunked(items, n), n > 0: items[i : i + n] for i in range(0, len, n)    *)
(***************************************************************************)
ChunkStartsWrong(len, n) == {i \in 0..(len - 1) : i % (n + 1) = 0}

ChunkStarts(len, n) == {i \in 0..(len - 1) : i % n = 0}

chunked(items, n) ==
    LET starts == SortedSeq(ChunkStarts(Len(items), n))
    IN [j \in DOMAIN starts |->
          SubSeq(items, starts[j] + 1, Min(Len(items), starts[j] + n))]

(***************************************************************************)
(* build_channel_id_list: the resourceId column of allchannels_map.csv     *)
(* (None for an empty cell), optionally filtered by the playable           *)
(* resourceIds of playback_map.csv, deduplicated and sorted.               *)
(***************************************************************************)
build_channel_id_list(rid_rows, has_playback, playable_rids, include_all) ==
    LET rid_all == {rid_rows[i] : i \in DOMAIN rid_rows} \ {None}
    IN IF include_all \/ ~has_playback THEN SortedSeq(rid_all)
       ELSE IF playable_rids = {} THEN SortedSeq(rid_all)
       ELSE SortedSeq(rid_all \cap playable_rids)

(***************************************************************************)
(* The window of index wi (0-based): lines 393-394.                        *)
(***************************************************************************)
WStartWrong(start_, window_, wi_) == start_ + (wi_ + 1) * window_

WStart(start_, window_, wi_) == start_ + wi_ * window_

WEndWrong(end_a, window_, w_start_) == w_start_ + window_

WEnd(end_a, window_, w_start_) == Min(end_a, w_start_ + window_)

NWindows(days_, window_hours_) == PyCeilDiv(days_ * HoursPerDay, window_hours_)

\* the windows main() iterates, as <<w_start, w_end>> pairs
Windows(start_, days_, window_hours_) ==
    LET n == NWindows(days_, window_hours_)
    IN [k \in 1..Max(n, 0) |->
          <<WStart(start_, window_hours_, k - 1),
            WEnd(start_ + days_ * HoursPerDay, window_hours_,
                 WStart(start_, window_hours_, k - 1))>>]

(***************************************************************************)
(* Schedule payloads.  A payload is a JSON object; an element of its       *)
(* "schedules" list is an object that may carry "channelId", or something  *)
(* that is not an object at all.                                           *)
(***************************************************************************)
Entry(c) == [channelId |-> c, contents |-> <<"p">>]

EntryNoId == [contents |-> <<"p">>]

NotADict == [notadict |-> TRUE]

EmptyEntry(channel_id) == [scheduleChannelId |-> channel_id, contents |-> <<>>]

NoSchedulesPayload == [message |-> "no schedules"]

IsDict(s) == "notadict" \notin DOMAIN s

DictGet(d, k) == IF k \in DOMAIN d THEN d[k] ELSE None

schedules_list(payload) ==
    IF "schedules" \in DOMAIN payload THEN payload.schedules ELSE <<>>

(***************************************************************************)
(* validate_multi_channel; min_ratio is in hundredths.                     *)
(***************************************************************************)
RatioOkWrong(overlap, nreq, min_ratio) == overlap * RatioScale > min_ratio * Max(1, nreq)

RatioOk(overlap, nreq, min_ratio) == overlap * RatioScale >= min_ratio * Max(1, nreq)

validate_multi_channel_ratio_only(payload, requested_channel_ids, min_ratio) ==
    LET scheds == schedules_list(payload)
        req == Range(requested_channel_ids)
        got_ids == {DictGet(scheds[i], "channelId") :
                       i \in {j \in DOMAIN scheds : IsDict(scheds[j])}} \ {None}
        overlap == Cardinality(req \cap got_ids)
    IN IF req = {} THEN TRUE
       ELSE RatioOk(overlap, Cardinality(req), min_ratio)

validate_multi_channel(payload, requested_channel_ids, min_ratio) ==
    LET scheds == schedules_list(payload)
        req == Range(requested_channel_ids)
        got_ids == {DictGet(scheds[i], "channelId") :
                       i \in {j \in DOMAIN scheds : IsDict(scheds[j])}} \ {None}
        overlap == Cardinality(req \cap got_ids)
    IN IF req = {} THEN TRUE
       ELSE IF overlap = 0 /\ Len(scheds) >= Cardinality(req) THEN TRUE
       ELSE RatioOk(overlap, Cardinality(req), min_ratio)

(***************************************************************************)
(* combine_single_channel_payloads; channel_payloads is a sequence of      *)
(* <<channel_id, payload>> pairs.                                          *)
(***************************************************************************)
ChannelPartWrong(channel_id, payload) ==
    schedules_list(payload)

ChannelPart(channel_id, payload) ==
    LET scheds == schedules_list(payload)
    IN IF scheds # <<>> THEN scheds ELSE <<EmptyEntry(channel_id)>>

combine_single_channel_payloads(channel_payloads) ==
    [schedules |-> Flatten([i \in DOMAIN channel_payloads |->
                      ChannelPart(channel_payloads[i][1], channel_payloads[i][2])]),
     _combined |-> TRUE]

(***************************************************************************)
(* schedule_params                                                         *)
(***************************************************************************)
schedule_params(start_utc, end_utc, channel_ids_, include_4k, is_4k_compatible) ==
    [startTime |-> to_ms(start_utc),
     endTime |-> to_ms(end_utc),
     include4K |-> include_4k,
     is4KCompatible |-> is_4k_compatible,
     channelIds |-> channel_ids_]

(***************************************************************************)
(* HTTP responses as _get_json sees them: the transport raised, or an      *)
(* answer with a status code and a body that r.json() decodes or not.      *)
(***************************************************************************)
Http(code) == [exc |-> FALSE, status_code |-> code, decodable |-> FALSE, json |-> NoSchedulesPayload]

TransportError == [exc |-> TRUE, status_code |-> 0, decodable |-> FALSE, json |-> NoSchedulesPayload]

Undecodable200 == [exc |-> FALSE, status_code |-> 200, decodable |-> FALSE, json |-> NoSchedulesPayload]

Ok200(payload) == [exc |-> FALSE, status_code |-> 200, decodable |-> TRUE, json |-> payload]

FailResponses == {Http(401), Http(503), TransportError, Undecodable200}

\* lines 231-238: does this response raise inside the try block
Raises(r) == r.exc \/ r.status_code >= 400 \/ ~r.decodable

\* the exception it raises
Raised(r) ==
    IF r.exc THEN [type |-> "RequestException", status_code |-> 0]
    ELSE IF r.status_code >= 400 THEN [type |-> "RuntimeError", status_code |-> r.status_code]
    ELSE [type |-> "JSONDecodeError", status_code |-> r.status_code]

NoError == [type |-> "none", status_code |-> 0]

\* line 241: if attempt >= retries: break
GiveUpLate(attempt_, retries_) == attempt_ > retries_

GiveUp(attempt_, retries_) == attempt_ >= retries_

\* line 243
sleep_s(retry_backoff, attempt_) == retry_backoff * Pow2(attempt_)

(***************************************************************************)
(* The answers the remote service may give to a multi-channel request for  *)
(* a batch: entries for any subset of the batch, as many entries as        *)
(* requested but none carrying a requested identifier, or a body without   *)
(* a schedules list; and to a single-channel request: no entry, one or     *)
(* two entries of that channel.                                            *)
(***************************************************************************)
RECURSIVE Restrict(_, _)
Restrict(ids, S) ==
    IF ids = <<>> THEN <<>>
    ELSE (IF Head(ids) \in S THEN <<Entry(Head(ids))>> ELSE <<>>) \o Restrict(Tail(ids), S)

MultiPayloads(batch_) ==
    {[schedules |-> Restrict(batch_, S)] : S \in SUBSET Range(batch_)}
      \cup {[schedules |-> [i \in 1..Len(batch_) |-> EntryNoId]]}
      \cup {NoSchedulesPayload}

SinglePayloads(cid) ==
    {[schedules |-> <<>>],
     [schedules |-> <<Entry(cid)>>],
     [schedules |-> <<Entry(cid), Entry(cid)>>]}

(***************************************************************************)
(* State.                                                                  *)
(***************************************************************************)
VARIABLES
    args,            \* parsed command line and the resourceId column read
    pc,              \* position of main()
    rc,              \* exit status of the process
    error,           \* the exception that ended main(), if any
    channel_ids, start, end, window, n_windows, total_batches, meta,
    wi, batch_i, batch,
    req_count, fallback_count, all_payloads,
    mode,            \* "multi": batch request, "single": per-channel request
    ci,              \* position in batch of the per-channel request
    chan_payloads,
    payload,         \* the payload of the current work item
    attempt, last_err,
    gets,            \* status codes answered to the GETs of the current _get_json call
    sleeps,          \* delays slept by the current _get_json call
    params,          \* params of the current _get_json call
    net_gets,        \* GETs issued by the run
    wf_lines,        \* lines written to schedule_windows.jsonl
    wf_durable,      \* how many of them have reached the disk
    wf_torn,         \* the disk holds a fragment of the next line
    combined_file,   \* dtv_schedule_raw.json
    fn, fargs, fres, \* application of a pure function
    \* build_playback_map.py
    pb_args,         \* its command line and the channels of allchannels_map.csv
    pb_pc,           \* position of its main()
    pb_rc,           \* its exit status
    rows_by_ccid, todo,
    idx,             \* position in todo, counted from 1
    pb_attempt, last_status, pb_last_err,   \* locals of safe_get_json
    pb_j, pb_status, pb_error,              \* what safe_get_json returned: j, status, error
    out_file,        \* rows of the playback map at args.out
    out_writes,      \* calls of write_playback_map
    fail_file,       \* records appended to the failures file
    pb_gets,         \* the answers to the GETs of the latest safe_get_json call
    pb_sleeps,       \* the delays that call slept, in quarters of a second
    pb_requested,    \* the ccids safe_get_json was called for, in order
    tmp_file,        \* the file at args.out + ".tmp"
    pb_flushed,      \* rows_by_ccid as of the latest write_playback_map
    \* webapp.py
    refresh_running, last_refresh_status,   \* its globals
    t_pc,            \* position of each thread in api_refresh / run_refresh
    t_returncode,    \* returncode local of each thread's run_refresh
    t_assigned,      \* what the thread's run_refresh assigned to last_refresh_status
    last_response,   \* the status code api_refresh answered last
    n_procs,         \* daily_refresh.py subprocesses that are running
    n_calls,         \* calls of run_refresh and api_refresh so far
    \* daily_refresh.py
    dr_args,         \* its command line and what it finds on disk and in the environment
    dr_pc,           \* position of its main()
    dr_rc,           \* its exit status
    dr_i,            \* the stage it is at, counted from 1
    dr_ran,          \* the sub-scripts run so far: script, options, exit code
    dr_log           \* the stage markers logged so far

planVars == <<channel_ids, start, end, window, n_windows, total_batches, meta>>
loopVars == <<wi, batch_i, batch, req_count, fallback_count, all_payloads>>
fallVars == <<mode, ci, chan_payloads, payload>>
reqVars == <<attempt, last_err, gets, sleeps, params, net_gets>>
fileVars == <<wf_lines, wf_durable, wf_torn, combined_file>>
fnVars == <<fn, fargs, fres>>
pbVars == <<pb_args, pb_pc, pb_rc, rows_by_ccid, todo, idx, pb_attempt, last_status,
            pb_last_err, pb_j, pb_status, pb_error, out_file, out_writes, fail_file,
            pb_gets, pb_sleeps, pb_requested, tmp_file, pb_flushed>>
webVars == <<refresh_running, last_refresh_status, t_pc, t_returncode, t_assigned,
             last_response, n_procs, n_calls>>
drVars == <<dr_args, dr_pc, dr_rc, dr_i, dr_ran, dr_log>>
extVars == <<webVars, drVars>>
vars == <<args, pc, rc, error, planVars, loopVars, fallVars, reqVars, fileVars, fnVars,
          pbVars, extVars>>

NoFile == [missing |-> TRUE]
NoParams == [startTime |-> 0, endTime |-> 0, include4K |-> FALSE,
             is4KCompatible |-> FALSE, channelIds |-> <<>>]
NoMeta == [unset |-> TRUE]
NoPayload == [unset |-> TRUE]
StaleLine == [schedules |-> <<>>, stale |-> TRUE]
StaleDoc == [meta |-> [generated_utc |-> -1], payloads |-> <<StaleLine>>]

(***************************************************************************)
(* Command lines and input files of a run.                                 *)
(***************************************************************************)
WindowHoursChoices == {0, 24, 36}
\* --retry-backoff: the default, and a base above the cap the sibling
\* fetchers of the repository apply to their backoff
RetryBackoffChoices == {RetryBackoffDefault, 2 * BackoffCapDefault}
MinRatioChoices == {50, MinRatioDefault}
StartChoices == {7}

\* a resourceId column holding n distinct identifiers, unsorted, with an
\* empty cell and a repeated identifier
RowsOf(S) ==
    LET desc == Reverse(SortedSeq(S))
    IN desc \o <<None>> \o SubSeq(desc, 1, Min(Len(desc), 1))

RidRows(n) == RowsOf(1..n)

\* the most GETs a run with these arguments issues when no GET is retried:
\* one per work item and one per channel of every window
Items(a) ==
    IF a.days > 0 /\ a.window_hours > 0 /\ a.max_channels > 0
    THEN LET N == Cardinality(Range(a.rid_rows) \ {None})
         IN NWindows(a.days, a.window_hours) * (PyCeilDiv(N, a.max_channels) + N)
    ELSE 0

\* the size of the runs from these arguments
Work(a) == Items(a) * (a.retries + 1) * (IF a.prior THEN 2 ELSE 1)
              * (IF a.min_ratio # MinRatioDefault THEN 2 ELSE 1)
              * (IF a.retry_backoff # RetryBackoffDefault THEN 2 ELSE 1)

ArgChoices ==
    {a \in [days : 0..MaxDays,
            window_hours : WindowHoursChoices,
            max_channels : 0..MaxBatch,
            retries : 0..MaxRetries,
            retry_backoff : RetryBackoffChoices,
            min_ratio : MinRatioChoices,
            include4k : {FALSE},
            is4kcompatible : {FALSE},
            rid_rows : {RidRows(n) : n \in 0..MaxChannels},
            now : StartChoices,
            prior : BOOLEAN] : Work(a) <= MaxWork}

RunStart(a) ==
    /\ args = a
    /\ pc = "main"
    /\ rc = -1
    /\ error = NoError
    /\ channel_ids = <<>> /\ start = 0 /\ end = 0 /\ window = 0
    /\ n_windows = 0 /\ total_batches = 0 /\ meta = NoMeta
    /\ wi = 0 /\ batch_i = 0 /\ batch = <<>>
    /\ req_count = 0 /\ fallback_count = 0 /\ all_payloads = <<>>
    /\ mode = "multi" /\ ci = 0 /\ chan_payloads = <<>> /\ payload = NoPayload
    /\ attempt = 0 /\ last_err = NoError /\ gets = <<>> /\ sleeps = <<>>
    /\ params = NoParams /\ net_gets = 0
    /\ wf_lines = IF a.prior THEN <<StaleLine>> ELSE <<>>
    /\ wf_durable = Len(wf_lines)
    /\ wf_torn = FALSE
    /\ combined_file = IF a.prior THEN StaleDoc ELSE NoFile

InitRun == \E a \in ArgChoices : RunStart(a)

FnIdle == fn = "none" /\ fargs = <<>> /\ fres = <<>>

\* build_playback_map.py is not running
NoJson == [none |-> TRUE]

\* there is no file at args.out + ".tmp"
NoTmp == [absent |-> TRUE]

\* build_playback_map.main() is entered with these files on disk
PbEnter(existing) ==
    /\ rows_by_ccid = <<>> /\ todo = <<>> /\ idx = 0
    /\ pb_attempt = 0 /\ last_status = None /\ pb_last_err = ""
    /\ pb_j = NoJson /\ pb_status = None /\ pb_error = ""
    /\ out_file = existing /\ out_writes = 0 /\ fail_file = <<>>
    /\ pb_gets = <<>> /\ pb_sleeps = <<>> /\ pb_requested = <<>>
    /\ tmp_file = NoTmp /\ pb_flushed = <<>>

PbIdle == pb_args = <<>> /\ pb_pc = "idle" /\ pb_rc = -1 /\ PbEnter(<<>>)

\* webapp.py: the threads that call run_refresh (lines 291-305, 533-554)
MaxPosts == 1
MaxCalls == 4
MaxOrphans == 1

PostThreads == {<<"post", k>> : k \in 1..MaxPosts}
WebThreads == {<<"scheduler", 0>>, <<"startup", 0>>} \cup PostThreads

\* webapp.py lines 96-98: the module's globals; no thread has been started
WebBoot(calls) ==
    /\ refresh_running = FALSE /\ last_refresh_status = "None"
    /\ t_pc = [t \in WebThreads |-> "idle"]
    /\ t_returncode = [t \in WebThreads |-> <<>>]
    /\ t_assigned = [t \in WebThreads |-> "None"]
    /\ last_response = None
    /\ n_procs = 0 /\ n_calls = calls

\* webapp.py is not serving: no call of run_refresh or api_refresh is left
WebIdle == WebBoot(MaxCalls)

\* daily_refresh.py is not running
DrIdle ==
    /\ dr_args = <<>> /\ dr_pc = "idle" /\ dr_rc = -1 /\ dr_i = 0
    /\ dr_ran = <<>> /\ dr_log = <<>>

ExtIdle == WebIdle /\ DrIdle

Init == InitRun /\ FnIdle /\ PbIdle /\ ExtIdle

(***************************************************************************)
(* main(): planning (lines 350-389).                                       *)
(***************************************************************************)
TornDoc == [torn |-> TRUE]

Running == {"main", "open", "loop", "get", "finalize"}

InsideWith == {"loop", "get"}

AbortWritesPartial(e) ==
    /\ pc' = "aborted"
    /\ rc' = 1
    /\ error' = e
    /\ wf_lines' = wf_lines
    /\ wf_durable' = Len(wf_lines)
    /\ wf_torn' = wf_torn
    /\ combined_file' = [meta |-> meta, payloads |-> all_payloads]

AbortKeepsPartial(e) ==
    /\ pc' = "aborted"
    /\ rc' = 1
    /\ error' = e
    /\ wf_lines' = IF mode = "single" /\ chan_payloads # <<>>
                   THEN Append(wf_lines, combine_single_channel_payloads(chan_payloads))
                   ELSE wf_lines
    /\ wf_durable' = Len(wf_lines')
    /\ wf_torn' = wf_torn
    /\ combined_file' = combined_file

\* an exception leaves main(): the with block, if entered, closes the file
Abort(e) ==
    /\ pc' = "aborted"
    /\ rc' = 1
    /\ error' = e
    /\ wf_lines' = wf_lines
    /\ wf_durable' = Len(wf_lines)
    /\ wf_torn' = wf_torn
    /\ combined_file' = combined_file

Batches == IF args.max_channels > 0 THEN chunked(channel_ids, args.max_channels) ELSE <<>>

PlanNoChannels ==
    /\ pc = "main"
    /\ build_channel_id_list(args.rid_rows, FALSE, {}, FALSE) = <<>>
    /\ pc' = "exit"
    /\ rc' = 2
    /\ UNCHANGED <<args, error, planVars, loopVars, fallVars, reqVars, fileVars, fnVars, pbVars, extVars>>

PlanZeroWindow ==
    /\ pc = "main"
    /\ build_channel_id_list(args.rid_rows, FALSE, {}, FALSE) # <<>>
    /\ args.window_hours = 0
    /\ channel_ids' = build_channel_id_list(args.rid_rows, FALSE, {}, FALSE)
    /\ start' = args.now
    /\ end' = args.now + args.days * HoursPerDay
    /\ window' = args.window_hours
    /\ Abort([type |-> "ZeroDivisionError", cause |-> NoError])
    /\ UNCHANGED <<args, n_windows, total_batches, meta, loopVars, fallVars, reqVars, fnVars, pbVars, extVars>>

Plan ==
    /\ pc = "main"
    /\ build_channel_id_list(args.rid_rows, FALSE, {}, FALSE) # <<>>
    /\ args.window_hours # 0
    /\ channel_ids' = build_channel_id_list(args.rid_rows, FALSE, {}, FALSE)
    /\ start' = args.now
    /\ end' = args.now + args.days * HoursPerDay
    /\ window' = args.window_hours
    /\ n_windows' = NWindows(args.days, args.window_hours)
    /\ total_batches' = PyCeilDiv(Len(channel_ids'), Max(1, args.max_channels))
    /\ meta' = [generated_utc |-> args.now,
                start_utc |-> start',
                end_utc |-> end',
                days |-> args.days,
                window_hours |-> args.window_hours,
                max_channels |-> args.max_channels,
                include4K |-> args.include4k,
                is4KCompatible |-> args.is4kcompatible,
                channel_ids_count |-> Len(channel_ids')]
    /\ all_payloads' = <<>>
    /\ req_count' = 0
    /\ fallback_count' = 0
    /\ pc' = "open"
    /\ UNCHANGED <<args, rc, error, wi, batch_i, batch, fallVars, reqVars, fileVars, fnVars, pbVars, extVars>>

OpenWindowsAppend ==
    /\ pc = "open"
    /\ wf_lines' = wf_lines
    /\ wf_durable' = wf_durable
    /\ pc' = "loop"
    /\ UNCHANGED <<args, rc, error, planVars, loopVars, fallVars, reqVars, wf_torn,
                   combined_file, fnVars, pbVars, extVars>>

\* line 391: open(windows_path, "w")
OpenWindows ==
    /\ pc = "open"
    /\ wf_lines' = <<>>
    /\ wf_durable' = 0
    /\ pc' = "loop"
    /\ UNCHANGED <<args, rc, error, planVars, loopVars, fallVars, reqVars, wf_torn,
                   combined_file, fnVars, pbVars, extVars>>

(***************************************************************************)
(* The window and batch loops (lines 392-412).                             *)
(***************************************************************************)
StartRequest(p) ==
    /\ params' = p
    /\ attempt' = 0
    /\ last_err' = NoError
    /\ gets' = <<>>
    /\ sleeps' = <<>>
    /\ UNCHANGED net_gets

CurWStart == WStart(start, window, wi)

CurWEnd == WEnd(end, window, CurWStart)

\* lines 432-439: the params of the request for one channel of the batch
one_params_wrong(cid) ==
    schedule_params(CurWStart, CurWStart + window, <<cid>>,
                    args.include4k, args.is4kcompatible)

one_params(cid) ==
    schedule_params(CurWStart, CurWEnd, <<cid>>, args.include4k, args.is4kcompatible)

NextItem ==
    /\ pc = "loop"
    /\ wi < n_windows
    /\ args.max_channels # 0
    /\ batch_i < Len(Batches)
    /\ batch' = Batches[batch_i + 1]
    /\ batch_i' = batch_i + 1
    /\ req_count' = req_count + 1
    /\ StartRequest(schedule_params(CurWStart, CurWEnd, batch',
                                    args.include4k, args.is4kcompatible))
    /\ mode' = "multi"
    /\ pc' = "get"
    /\ UNCHANGED <<args, rc, error, planVars, wi, fallback_count, all_payloads,
                   ci, chan_payloads, payload, fileVars, fnVars, pbVars, extVars>>

NextWindow ==
    /\ pc = "loop"
    /\ wi < n_windows
    /\ args.max_channels # 0
    /\ batch_i >= Len(Batches)
    /\ wi' = wi + 1
    /\ batch_i' = 0
    /\ UNCHANGED <<args, pc, rc, error, planVars, batch, req_count, fallback_count,
                   all_payloads, fallVars, reqVars, fileVars, fnVars, pbVars, extVars>>

\* range(0, len(items), 0) raises ValueError when chunked is first advanced
ChunkError ==
    /\ pc = "loop"
    /\ wi < n_windows
    /\ args.max_channels = 0
    /\ Abort([type |-> "ValueError", cause |-> NoError])
    /\ UNCHANGED <<args, planVars, loopVars, fallVars, reqVars, fnVars, pbVars, extVars>>

\* the with block ends normally
CloseWindows ==
    /\ pc = "loop"
    /\ wi >= n_windows
    /\ wf_durable' = Len(wf_lines)
    /\ pc' = "finalize"
    /\ UNCHANGED <<args, rc, error, planVars, loopVars, fallVars, reqVars, wf_lines,
                   wf_torn, combined_file, fnVars, pbVars, extVars>>

FinalizeInFinally ==
    /\ pc \in {"finalize", "aborted"}
    /\ combined_file' = [meta |-> meta, payloads |-> all_payloads]
    /\ pc' = "done"
    /\ rc' = 0
    /\ UNCHANGED <<args, error, planVars, loopVars, fallVars, reqVars, wf_lines,
                   wf_durable, wf_torn, fnVars, pbVars, extVars>>

\* lines 473-481
Finalize ==
    /\ pc = "finalize"
    /\ combined_file' = [meta |-> meta, payloads |-> all_payloads]
    /\ pc' = "done"
    /\ rc' = 0
    /\ UNCHANGED <<args, error, planVars, loopVars, fallVars, reqVars, wf_lines,
                   wf_durable, wf_torn, fnVars, pbVars, extVars>>

(***************************************************************************)
(* _get_json (lines 221-247), one GET per step.                            *)
(***************************************************************************)
GetFailed(cause) == [type |-> "GET failed after retries", cause |-> cause]

\* the except branch with attempts left: sleep, then the next attempt; the
\* for loop ends when range(retries + 1) is exhausted
GetFailRetry ==
    /\ pc = "get"
    /\ ~GiveUp(attempt, args.retries)
    /\ \E r \in FailResponses :
         /\ Raises(r)
         /\ last_err' = Raised(r)
         /\ gets' = Append(gets, r.status_code)
         /\ net_gets' = net_gets + 1
         /\ sleeps' = Append(sleeps, sleep_s(args.retry_backoff, attempt))
         /\ attempt' = attempt + 1
         /\ IF attempt + 1 <= args.retries
            THEN UNCHANGED <<pc, rc, error, fileVars>>
            ELSE Abort(GetFailed(Raised(r)))
    /\ UNCHANGED <<args, planVars, loopVars, fallVars, params, fnVars, pbVars, extVars>>

\* the except branch on the last attempt: break, then raise
GetFailFinal ==
    /\ pc = "get"
    /\ GiveUp(attempt, args.retries)
    /\ \E r \in FailResponses :
         /\ Raises(r)
         /\ last_err' = Raised(r)
         /\ gets' = Append(gets, r.status_code)
         /\ net_gets' = net_gets + 1
         /\ Abort(GetFailed(Raised(r)))
    /\ UNCHANGED <<args, planVars, loopVars, fallVars, attempt, sleeps, params, fnVars, pbVars, extVars>>

\* _get_json returns: its locals are gone
Returned ==
    /\ gets' = Append(gets, 200)
    /\ net_gets' = net_gets + 1
    /\ attempt' = 0
    /\ last_err' = NoError
    /\ UNCHANGED <<sleeps, params>>

(***************************************************************************)
(* Lines 454-463: annotate the payload, write its line, accumulate it.     *)
(* Nothing flushes the file: what has reached the disk after the write is  *)
(* up to the buffers of the file object.                                   *)
(***************************************************************************)
WindowTagOfRequest ==
    [start_utc |-> CurWStart,
     end_utc |-> CurWEnd,
     start_ms |-> to_ms(CurWStart),
     end_ms |-> to_ms(CurWEnd),
     batch_size |-> Len(params.channelIds)]

\* lines 454-460
WindowTag ==
    [start_utc |-> CurWStart,
     end_utc |-> CurWEnd,
     start_ms |-> to_ms(CurWStart),
     end_ms |-> to_ms(CurWEnd),
     batch_size |-> Len(batch)]

DurableAfterWrite(durable_, nlines) == durable_..nlines

ResolveLineOnly(payload_) ==
    LET annotated == SetKey(payload_, "_window", WindowTag)
    IN /\ payload' = annotated
       /\ wf_lines' = Append(wf_lines, annotated)
       /\ wf_durable' \in DurableAfterWrite(wf_durable, Len(wf_lines'))
       /\ all_payloads' = all_payloads
       /\ pc' = "loop"
       /\ UNCHANGED <<wf_torn, combined_file>>

\* the line is written and the work item requested once more
ResolveAndRepeat(payload_) ==
    LET annotated == SetKey(payload_, "_window", WindowTag)
    IN /\ payload' = annotated
       /\ wf_lines' = Append(wf_lines, annotated)
       /\ wf_durable' \in DurableAfterWrite(wf_durable, Len(wf_lines'))
       /\ all_payloads' = Append(all_payloads, annotated)
       /\ pc' = IF wf_lines = <<>> THEN "get" ELSE "loop"
       /\ UNCHANGED <<wf_torn, combined_file>>

\* lines 454-463
Resolve(payload_) ==
    LET annotated == SetKey(payload_, "_window", WindowTag)
    IN /\ payload' = annotated
       /\ wf_lines' = Append(wf_lines, annotated)
       /\ wf_durable' \in DurableAfterWrite(wf_durable, Len(wf_lines'))
       /\ all_payloads' = Append(all_payloads, annotated)
       /\ pc' = "loop"
       /\ UNCHANGED <<wf_torn, combined_file>>

\* line 424: the batch response passes validate_multi_channel
GetOkAccepted ==
    /\ pc = "get"
    /\ mode = "multi"
    /\ \E p \in MultiPayloads(batch) :
         /\ ~Raises(Ok200(p))
         /\ validate_multi_channel(p, batch, args.min_ratio)
         /\ Resolve(p)
    /\ Returned
    /\ UNCHANGED <<args, rc, error, planVars, wi, batch_i, batch, req_count,
                   fallback_count, mode, ci, chan_payloads, fnVars, pbVars, extVars>>

\* lines 424-439: it does not; the first per-channel request is prepared
GetOkRejected ==
    /\ pc = "get"
    /\ mode = "multi"
    /\ \E p \in MultiPayloads(batch) :
         /\ ~Raises(Ok200(p))
         /\ ~validate_multi_channel(p, batch, args.min_ratio)
         /\ payload' = p
    /\ fallback_count' = fallback_count + 1
    /\ chan_payloads' = <<>>
    /\ ci' = 1
    /\ mode' = "single"
    /\ req_count' = req_count + 1
    /\ net_gets' = net_gets + 1
    /\ params' = one_params(batch[1])
    /\ attempt' = 0
    /\ last_err' = NoError
    /\ gets' = <<>>
    /\ sleeps' = <<>>
    /\ UNCHANGED <<args, pc, rc, error, planVars, wi, batch_i, batch, all_payloads,
                   fileVars, fnVars, pbVars, extVars>>

\* lines 440-449, another channel follows
GetOneMore ==
    /\ pc = "get"
    /\ mode = "single"
    /\ ci < Len(batch)
    /\ \E p \in SinglePayloads(batch[ci]) :
         /\ ~Raises(Ok200(p))
         /\ chan_payloads' = Append(chan_payloads, <<batch[ci], p>>)
    /\ ci' = ci + 1
    /\ req_count' = req_count + 1
    /\ net_gets' = net_gets + 1
    /\ params' = one_params(batch[ci + 1])
    /\ attempt' = 0
    /\ last_err' = NoError
    /\ gets' = <<>>
    /\ sleeps' = <<>>
    /\ UNCHANGED <<args, pc, rc, error, planVars, wi, batch_i, batch, fallback_count,
                   all_payloads, mode, payload, fileVars, fnVars, pbVars, extVars>>

\* lines 440-452, the last channel of the batch
GetOneLast ==
    /\ pc = "get"
    /\ mode = "single"
    /\ ci >= Len(batch)
    /\ \E p \in SinglePayloads(batch[ci]) :
         /\ ~Raises(Ok200(p))
         /\ chan_payloads' = Append(chan_payloads, <<batch[ci], p>>)
         /\ Resolve(SetKey(combine_single_channel_payloads(chan_payloads'),
                           "_fallback_single_channel", TRUE))
    /\ Returned
    /\ mode' = "multi"
    /\ UNCHANGED <<args, rc, error, planVars, wi, batch_i, batch, req_count,
                   fallback_count, ci, fnVars, pbVars, extVars>>

(***************************************************************************)
(* The environment: the operator interrupts the run (KeyboardInterrupt     *)
(* unwinds main()), or the process is killed (its memory and its unwritten *)
(* buffers are lost).                                                      *)
(***************************************************************************)
Interrupt ==
    /\ pc \in Running
    /\ pc' = "aborted"
    /\ rc' = 130
    /\ error' = [type |-> "KeyboardInterrupt", cause |-> NoError]
    /\ wf_durable' = IF pc \in InsideWith THEN Len(wf_lines) ELSE wf_durable
    \* lines 474-475: json.dump writes into the opened, truncated document
    /\ combined_file' \in IF pc = "finalize" THEN {combined_file, TornDoc} ELSE {combined_file}
    /\ UNCHANGED <<args, planVars, loopVars, fallVars, reqVars, wf_lines, wf_torn,
                   fnVars, pbVars, extVars>>

Kill ==
    /\ pc \in Running
    /\ pc' = "killed"
    /\ rc' = 137
    /\ wf_torn' \in IF wf_durable < Len(wf_lines) THEN BOOLEAN ELSE {FALSE}
    /\ combined_file' \in IF pc = "finalize" THEN {combined_file, TornDoc} ELSE {combined_file}
    /\ all_payloads' = <<>>
    /\ chan_payloads' = <<>>
    /\ payload' = NoPayload
    /\ attempt' = 0 /\ last_err' = NoError /\ gets' = <<>> /\ sleeps' = <<>>
    /\ params' = NoParams
    /\ UNCHANGED <<args, error, planVars, wi, batch_i, batch, req_count, fallback_count,
                   mode, ci, net_gets, wf_lines, wf_durable, fnVars, pbVars, extVars>>

Next ==
    \/ PlanNoChannels
    \/ PlanZeroWindow
    \/ Plan
    \/ OpenWindows
    \/ NextItem
    \/ NextWindow
    \/ ChunkError
    \/ CloseWindows
    \/ Finalize
    \/ GetFailRetry
    \/ GetFailFinal
    \/ GetOkAccepted
    \/ GetOkRejected
    \/ GetOneMore
    \/ GetOneLast
    \/ Interrupt
    \/ Kill

Spec == Init /\ [][Next]_vars

(***************************************************************************)
(* The pure functions of the engine applied to inputs drawn from bounded   *)
(* sets: fargs is the input, fres the value the function returns.          *)
(***************************************************************************)
DefaultArgs ==
    [days |-> 3, window_hours |-> 6, max_channels |-> 40, retries |-> 3,
     retry_backoff |-> RetryBackoffDefault, min_ratio |-> MinRatioDefault,
     include4k |-> FALSE, is4kcompatible |-> FALSE, rid_rows |-> <<>>,
     now |-> 0, prior |-> FALSE]

FnStartChoices == {0, 5}
FnRatioChoices == {0, 50, 70, MinRatioDefault, 80, 100}
FnPlayableChoices == {{}, {1, 2}}

\* the windows of a run started at s over d days with windows of wh hours
ApplyWindows ==
    /\ fn = "none"
    /\ \E s \in FnStartChoices, d \in 1..MaxFnDays, wh \in 1..MaxFnWindowHours :
         /\ fn' = "windows"
         /\ fargs' = [start |-> s, days |-> d, window_hours |-> wh]
         /\ fres' = Windows(s, d, wh)
    /\ UNCHANGED <<args, pc, rc, error, planVars, loopVars, fallVars, reqVars, fileVars,
                   pbVars, extVars>>

\* build_channel_id_list, then chunked
ApplyChunked ==
    /\ fn = "none"
    /\ \E S \in SUBSET (1..MaxFnChannels), n \in 1..MaxFnBatch,
          pl \in FnPlayableChoices :
         LET ids == build_channel_id_list(RowsOf(S), pl # {}, pl, FALSE)
         IN /\ fn' = "chunked"
            /\ fargs' = [rid_rows |-> RowsOf(S), playable |-> pl, items |-> ids, n |-> n]
            /\ fres' = chunked(ids, n)
    /\ UNCHANGED <<args, pc, rc, error, planVars, loopVars, fallVars, reqVars, fileVars,
                   pbVars, extVars>>

\* validate_multi_channel on a payload with entries for the identifiers in
\* present, followed by extra entries that name no requested identifier
ExtraEntries == {EntryNoId, Entry(ForeignId), NotADict}

ApplyValidate ==
    /\ fn = "none"
    /\ \E n \in 0..MaxFnRequested, x \in 0..MaxFnExtra, e \in ExtraEntries,
          r \in FnRatioChoices :
         \E present \in SUBSET (1..n) :
            LET requested == SortedSeq(1..n)
                resp == [schedules |-> Restrict(requested, present) \o [i \in 1..x |-> e]]
            IN /\ fn' = "validate"
               /\ fargs' = [requested |-> requested, present |-> present,
                            payload |-> resp, min_ratio |-> r]
               /\ fres' = validate_multi_channel(resp, requested, r)
    /\ UNCHANGED <<args, pc, rc, error, planVars, loopVars, fallVars, reqVars, fileVars,
                   pbVars, extVars>>

\* combine_single_channel_payloads on the pairs main() collects for a batch
FnSinglePayloads(cid) ==
    SinglePayloads(cid) \cup {NoSchedulesPayload, [schedules |-> <<Entry(ForeignId)>>]}

ApplyCombine ==
    /\ fn = "none"
    /\ \E k \in 0..MaxFnCombine :
         \E resp \in [1..k -> UNION {FnSinglePayloads(c) : c \in 1..k}] :
            /\ \A i \in 1..k : resp[i] \in FnSinglePayloads(i)
            /\ fn' = "combine"
            /\ fargs' = [i \in 1..k |-> <<i, resp[i]>>]
            /\ fres' = combine_single_channel_payloads(fargs')
    /\ UNCHANGED <<args, pc, rc, error, planVars, loopVars, fallVars, reqVars, fileVars,
                   pbVars, extVars>>

InitFn == RunStart(DefaultArgs) /\ FnIdle /\ PbIdle /\ ExtIdle

NextFn ==
    \/ ApplyWindows
    \/ ApplyChunked
    \/ ApplyValidate
    \/ ApplyCombine

SpecFn == InitFn /\ [][NextFn]_vars

(***************************************************************************)
(* build_playback_map.py.  A row of the playback map keeps the columns     *)
(* the rules read: ccid, playable, playable_reason, streamURL.  ccids are  *)
(* positive integers; a stream URL is "", " " (blank) or "u".              *)
(***************************************************************************)
MaxPbChannels == 2
MaxPbExisting == 2
MaxPbAttempts == 2
MaxPbWork == 24

\* str.lower() and str.strip() on the values of the model
Lower(s) == IF s = "True" THEN "true" ELSE IF s = "False" THEN "false" ELSE s

Strip(s) == IF s = " " THEN "" ELSE s

PbRow(ccid, playable, playable_reason, streamURL) ==
    [ccid |-> ccid, playable |-> playable, playable_reason |-> playable_reason,
     streamURL |-> streamURL]

\* lines 176-183: which of two rows of one ccid load_playback_map_dedup keeps
RowGood(row) == Lower(Strip(row.playable)) = "true" \/ Strip(row.streamURL) # ""

RECURSIVE load_playback_map_dedup(_)
load_playback_map_dedup(rows) ==
    IF rows = <<>> THEN <<>>
    ELSE LET best == load_playback_map_dedup(SubSeq(rows, 1, Len(rows) - 1))
             row == rows[Len(rows)]
             normalized == [k \in DOMAIN row |->
                               IF k = "ccid" THEN row[k] ELSE Strip(row[k])]
         IN IF row.ccid = None THEN best
            ELSE IF row.ccid \notin DOMAIN best THEN (row.ccid :> normalized) @@ best
            ELSE IF RowGood(normalized) /\ ~RowGood(best[row.ccid])
                 THEN (row.ccid :> normalized) @@ best
            ELSE best

\* lines 201-212
backfill_playable_fields(rows) ==
    [c \in DOMAIN rows |->
        IF Lower(Strip(rows[c].playable)) \in {"true", "false"} THEN rows[c]
        ELSE IF Strip(rows[c].streamURL) # ""
        THEN [rows[c] EXCEPT !.playable = "true",
                             !.playable_reason = "streamURL_present_existing_row"]
        ELSE [rows[c] EXCEPT !.playable = "false",
                             !.playable_reason = "no_stream_existing_row"]]

\* lines 215-222, were only the playable column looked at
done_ccids_playable_only(rows) ==
    {c \in DOMAIN rows : Lower(Strip(rows[c].playable)) = "true"}

done_ccids(rows) ==
    {c \in DOMAIN rows :
        Lower(Strip(rows[c].playable)) = "true" \/ Strip(rows[c].streamURL) # ""}

\* lines 542-544
Todo(channels, done, limit) ==
    LET t == SelectSeq(channels, LAMBDA c : c \notin done)
    IN IF limit > 0 THEN SubSeq(t, 1, Min(limit, Len(t))) ELSE t

\* the rows write_playback_map puts into the file, sorted by ccid
write_playback_map(rows) ==
    LET order == SortedSeq(DOMAIN rows)
    IN [i \in 1..Len(order) |-> rows[order[i]]]

is_retryable_status(code) == code \in {408, 425, 429, 500, 502, 503, 504}

\* the bodies of a 200 answer of the authorization endpoint
PbBodies ==
    {[playbackData |-> [streamURL |-> "u"]],
     [playbackData |-> [streamURL |-> " "]],
     [authorized |-> FALSE]}

PbResponses ==
    {Ok200(b) : b \in PbBodies}
      \cup {Undecodable200, Http(401), Http(503), TransportError}

extract_stream_fallback_keyframe(body) ==
    IF "playbackData" \in DOMAIN body THEN body.playbackData.streamURL ELSE ""

classify_playable(body, stream_url) ==
    IF stream_url # "" /\ Strip(stream_url) # ""
    THEN <<TRUE, "streamURL_present">>
    ELSE <<FALSE, "no_stream">>

(***************************************************************************)
(* The run of build_playback_map.main().                                   *)
(***************************************************************************)
ExistingPlayable == {"", "true", "false", "True"}

ExistingRows ==
    {PbRow(c, p, "", u) : c \in 1..MaxPbChannels, p \in ExistingPlayable, u \in {"", "u"}}

ExistingFiles ==
    UNION {[1..n -> ExistingRows] : n \in 0..MaxPbExisting}

\* lines 517-518: --backoff-base, --backoff-cap, in seconds
BackoffBaseDefault == 1
BackoffBaseChoices == {BackoffBaseDefault, 2 * BackoffCapDefault}

PbWork(a) ==
    (Len(a.channels) + 1) * (a.attempts + 1) * (Len(a.existing) + 1) * (Len(a.existing) + 1)
        * (IF a.limit > 0 THEN 2 ELSE 1) * (IF a.flush_every > 0 THEN 2 ELSE 1)
        * (IF a.backoff_base # BackoffBaseDefault THEN 2 ELSE 1)

PbArgChoices ==
    {a \in [channels : {SortedSeq(1..n) : n \in 0..MaxPbChannels},
            existing : ExistingFiles,
            limit : {0, 1},
            flush_every : {0, 2},
            attempts : 0..MaxPbAttempts,
            backoff_base : BackoffBaseChoices,
            backoff_cap : {BackoffCapDefault}] : PbWork(a) <= MaxPbWork}

PbStart(a) == pb_args = a /\ pb_pc = "main" /\ pb_rc = -1 /\ PbEnter(a.existing)

InitPlayback == RunStart(DefaultArgs) /\ FnIdle /\ ExtIdle /\ \E a \in PbArgChoices : PbStart(a)

otherVars == <<args, pc, rc, error, planVars, loopVars, fallVars, reqVars, fileVars, fnVars,
               extVars>>

\* lines 527-530
PbNoChannels ==
    /\ pb_pc = "main"
    /\ pb_args.channels = <<>>
    /\ pb_pc' = "exit"
    /\ pb_rc' = 2
    /\ UNCHANGED <<pb_args, rows_by_ccid, todo, idx, pb_attempt, last_status, pb_last_err,
                   pb_j, pb_status, pb_error, out_file, out_writes, fail_file, pb_gets,
                   pb_sleeps, pb_requested, tmp_file, pb_flushed, otherVars>>

\* lines 427-428: a call of safe_get_json begins
PbStartCall ==
    /\ pb_attempt' = 1
    /\ last_status' = None
    /\ pb_last_err' = ""

\* lines 616-637: the loop takes channel i of todo, if there is one, and calls
\* safe_get_json for it
PbTake(i, todo_) ==
    /\ idx' = i
    /\ pb_pc' = IF i > Len(todo_) THEN "final" ELSE "get"
    /\ pb_requested' = IF i > Len(todo_) THEN pb_requested ELSE Append(pb_requested, todo_[i])
    /\ PbStartCall

\* lines 538-544, up to the first channel of the loop
PbPlan ==
    /\ pb_pc = "main"
    /\ pb_args.channels # <<>>
    /\ rows_by_ccid' = backfill_playable_fields(load_playback_map_dedup(out_file))
    /\ todo' = Todo(pb_args.channels, done_ccids(rows_by_ccid'), pb_args.limit)
    /\ PbTake(1, todo')
    /\ UNCHANGED <<pb_args, pb_rc, pb_j, pb_status, pb_error, out_file, out_writes,
                   fail_file, pb_gets, pb_sleeps, tmp_file, pb_flushed, otherVars>>

\* what one answer leaves in last_status and last_err (lines 432-451)
PbLastStatus(r) == IF r.exc THEN last_status ELSE r.status_code

PbLastErr(r) ==
    IF r.exc THEN "request_error"
    ELSE IF r.status_code = 200 THEN "json_parse_error"
    ELSE "http_error"

PbSucceeds(r) == ~r.exc /\ r.status_code = 200 /\ r.decodable

\* lines 445-455, were every failed answer retried
PbRetriesAnyFailure(r) ==
    /\ ~PbSucceeds(r)
    /\ pb_attempt < pb_args.attempts

\* lines 445-455: is the GET issued again
PbRetries(r) ==
    /\ ~PbSucceeds(r)
    /\ pb_attempt < pb_args.attempts
    /\ r.exc \/ is_retryable_status(r.status_code)

\* line 414: the jitter is at most a quarter of the delay
JitterDen == 4

\* lines 412-415: the delays sleep_backoff may sleep, in quarters of a second
sleep_backoff(attempt_, base, cap) ==
    LET exp == Min(cap, base * Pow2(attempt_ - 1))
    IN {JitterDen * exp + jitter : jitter \in {0, exp}}

\* what the call has been answered and has slept so far
CallGets == IF pb_attempt = 1 THEN <<>> ELSE pb_gets

CallSleeps == IF pb_attempt = 1 THEN <<>> ELSE pb_sleeps

Answer(r) == [exc |-> r.exc, status_code |-> r.status_code, decodable |-> r.decodable]

PbGetRetry ==
    /\ pb_pc = "get"
    /\ pb_attempt <= pb_args.attempts
    /\ \E r \in PbResponses :
         /\ PbRetries(r)
         /\ last_status' = PbLastStatus(r)
         /\ pb_last_err' = PbLastErr(r)
         /\ pb_gets' = Append(CallGets, Answer(r))
    /\ \E s \in sleep_backoff(pb_attempt, pb_args.backoff_base, pb_args.backoff_cap) :
         pb_sleeps' = Append(CallSleeps, s)
    /\ pb_attempt' = pb_attempt + 1
    /\ UNCHANGED <<pb_args, pb_pc, pb_rc, rows_by_ccid, todo, idx, pb_j, pb_status,
                   pb_error, out_file, out_writes, fail_file, pb_requested, tmp_file,
                   pb_flushed, otherVars>>

\* lines 665, 699: is the map written after channel idx
FlushDue ==
    pb_args.flush_every # 0 /\ (idx % pb_args.flush_every = 0 \/ idx = Len(todo))

\* lines 665-668, 699-700 and the next turn of the loop
PbAdvance ==
    IF FlushDue
    THEN /\ pb_pc' = "flush"
         /\ idx' = idx + 1
         /\ UNCHANGED <<pb_attempt, last_status, pb_last_err, pb_requested>>
    ELSE PbTake(idx + 1, todo)

\* lines 639-663: the failure record and the playable = "false" row
RecordFailureNoRow(ccid) ==
    /\ fail_file' = Append(fail_file, [ccid |-> ccid, auth_status |-> pb_status',
                                       error |-> IF pb_error' = "" THEN "unknown_error"
                                                 ELSE pb_error'])
    /\ rows_by_ccid' = rows_by_ccid

RecordFailure(ccid) ==
    /\ fail_file' = Append(fail_file, [ccid |-> ccid, auth_status |-> pb_status',
                                       error |-> IF pb_error' = "" THEN "unknown_error"
                                                 ELSE pb_error'])
    /\ rows_by_ccid' = (ccid :> PbRow(ccid, "false", "request_failed", "")) @@ rows_by_ccid

\* safe_get_json gives up: return None, last_status, last_err
PbGetFail ==
    /\ pb_pc = "get"
    /\ pb_attempt <= pb_args.attempts
    /\ \E r \in PbResponses :
         /\ ~PbSucceeds(r)
         /\ ~PbRetries(r)
         /\ pb_status' = PbLastStatus(r)
         /\ pb_error' = PbLastErr(r)
         /\ pb_gets' = Append(CallGets, Answer(r))
    /\ pb_sleeps' = CallSleeps
    /\ pb_j' = NoJson
    /\ RecordFailure(todo[idx])
    /\ PbAdvance
    /\ UNCHANGED <<pb_args, pb_rc, todo, out_file, out_writes, tmp_file, pb_flushed,
                   otherVars>>

\* --attempts 0: range(1, 1) is empty, no GET is issued
PbNoAttempt ==
    /\ pb_pc = "get"
    /\ pb_attempt > pb_args.attempts
    /\ pb_j' = NoJson
    /\ pb_status' = None
    /\ pb_error' = ""
    /\ pb_gets' = <<>>
    /\ pb_sleeps' = <<>>
    /\ RecordFailure(todo[idx])
    /\ PbAdvance
    /\ UNCHANGED <<pb_args, pb_rc, todo, out_file, out_writes, tmp_file, pb_flushed,
                   otherVars>>

\* lines 670-700: a decoded 200 answer
PbGetOk ==
    /\ pb_pc = "get"
    /\ pb_attempt <= pb_args.attempts
    /\ \E b \in PbBodies :
         LET stream == extract_stream_fallback_keyframe(b)
             cls == classify_playable(b, stream)
             ccid == todo[idx]
         IN /\ pb_j' = b
            /\ pb_status' = 200
            /\ pb_error' = ""
            /\ pb_gets' = Append(CallGets, Answer(Ok200(b)))
            /\ fail_file' = IF cls[1] THEN fail_file
                            ELSE Append(fail_file, [ccid |-> ccid, auth_status |-> 200,
                                                    error |-> cls[2]])
            /\ rows_by_ccid' = (ccid :> PbRow(ccid, IF cls[1] THEN "true" ELSE "false",
                                              cls[2], Strip(stream))) @@ rows_by_ccid
    /\ pb_sleeps' = CallSleeps
    /\ PbAdvance
    /\ UNCHANGED <<pb_args, pb_rc, todo, out_file, out_writes, tmp_file, pb_flushed,
                   otherVars>>

\* lines 190-197: write_playback_map writes every row to the temporary file
PbWriteTmp ==
    /\ pb_pc \in {"flush", "final"}
    /\ tmp_file' = [rows |-> write_playback_map(rows_by_ccid), torn |-> FALSE]
    /\ pb_pc' = IF pb_pc = "flush" THEN "replace" ELSE "final_replace"
    /\ UNCHANGED <<pb_args, pb_rc, rows_by_ccid, todo, idx, pb_attempt, last_status,
                   pb_last_err, pb_j, pb_status, pb_error, out_file, out_writes, fail_file,
                   pb_gets, pb_sleeps, pb_requested, pb_flushed, otherVars>>

\* line 198: os.replace(tmp, path)
Replace ==
    /\ out_file' = tmp_file.rows
    /\ tmp_file' = NoTmp
    /\ out_writes' = out_writes + 1
    /\ pb_flushed' = rows_by_ccid

\* line 198, and the next turn of the loop
PbReplace ==
    /\ pb_pc = "replace"
    /\ Replace
    /\ PbTake(idx, todo)
    /\ UNCHANGED <<pb_args, pb_rc, rows_by_ccid, todo, pb_j, pb_status, pb_error, fail_file,
                   pb_gets, pb_sleeps, otherVars>>

\* lines 702-704
PbFinal ==
    /\ pb_pc = "final_replace"
    /\ Replace
    /\ pb_pc' = "done"
    /\ pb_rc' = 0
    /\ UNCHANGED <<pb_args, rows_by_ccid, todo, idx, pb_attempt, last_status, pb_last_err,
                   pb_j, pb_status, pb_error, fail_file, pb_gets, pb_sleeps, pb_requested,
                   otherVars>>

\* what an interrupted write of the rows leaves in the file it was writing
TornFiles(rows) == {[rows |-> SubSeq(rows, 1, k), torn |-> TRUE] : k \in 0..Len(rows)}

\* the run is interrupted while the map is written, were the map written in place
PbKillInPlace ==
    /\ pb_pc \in {"main", "get", "flush", "replace", "final", "final_replace"}
    /\ pb_pc' = "killed"
    /\ IF pb_pc \in {"flush", "final"}
       THEN \E t \in TornFiles(write_playback_map(rows_by_ccid)) : out_file' = t.rows
       ELSE UNCHANGED out_file
    /\ UNCHANGED <<pb_args, pb_rc, rows_by_ccid, todo, idx, pb_attempt, last_status,
                   pb_last_err, pb_j, pb_status, pb_error, out_writes, fail_file,
                   pb_gets, pb_sleeps, pb_requested, tmp_file, pb_flushed, otherVars>>

\* the run is interrupted or killed; lines 190-197: when that happens while
\* write_playback_map writes, the temporary file is left partly written
PbKill ==
    /\ pb_pc \in {"main", "get", "flush", "replace", "final", "final_replace"}
    /\ pb_pc' = "killed"
    /\ IF pb_pc \in {"flush", "final"}
       THEN tmp_file' \in {tmp_file} \cup TornFiles(write_playback_map(rows_by_ccid))
       ELSE UNCHANGED tmp_file
    /\ UNCHANGED <<pb_args, pb_rc, rows_by_ccid, todo, idx, pb_attempt, last_status,
                   pb_last_err, pb_j, pb_status, pb_error, out_file, out_writes, fail_file,
                   pb_gets, pb_sleeps, pb_requested, pb_flushed, otherVars>>

NextPlayback ==
    \/ PbNoChannels
    \/ PbPlan
    \/ PbGetRetry
    \/ PbGetFail
    \/ PbNoAttempt
    \/ PbGetOk
    \/ PbWriteTmp
    \/ PbReplace
    \/ PbFinal
    \/ PbKill

SpecPlayback == InitPlayback /\ [][NextPlayback]_vars

(***************************************************************************)
(* Properties.                                                             *)
(***************************************************************************)
InitialCombined == IF args.prior THEN StaleDoc ELSE NoFile

GetFailure == error.type = "GET failed after retries"

\* work items resolved before the one whose request is prepared or in flight
ItemsBefore == wi * Len(Batches) + batch_i - 1

\* the window tag the j-th work item of the run carries
TagOfItem(j) ==
    LET nb == Len(Batches)
        ws == start + ((j - 1) \div nb) * window
        we == Min(end, ws + window)
    IN [start_utc |-> ws, end_utc |-> we, start_ms |-> ws * MsPerHour,
        end_ms |-> we * MsPerHour, batch_size |-> Len(Batches[((j - 1) % nb) + 1])]

\* C1: when a request of a work item fails for good, the run is aborted with
\* a nonzero status, the combined document is not written by this run, and
\* the line-stream on disk holds exactly the lines of the work items resolved
\* before the failing one, in order.
FailFast ==
    (pc = "aborted" /\ GetFailure) =>
        /\ rc # 0
        /\ combined_file = InitialCombined
        /\ wf_durable = Len(wf_lines)
        /\ ~wf_torn
        /\ Len(wf_lines) = ItemsBefore
        /\ \A j \in 1..Len(wf_lines) : wf_lines[j]._window = TagOfItem(j)

FailFastWitness ==
    /\ pc = "aborted"
    /\ GetFailure
    /\ last_err.status_code = 401
    /\ Len(wf_lines) >= 1
    /\ args.prior

\* the identifier a schedule entry is recorded for
EntryIdOf(e) ==
    IF "channelId" \in DOMAIN e THEN e.channelId
    ELSE IF "scheduleChannelId" \in DOMAIN e THEN e.scheduleChannelId
    ELSE None

\* C2 as stated: the combined payload of a decomposed batch of k identifiers
\* has exactly k schedule entries and covers each identifier exactly once,
\* whatever the per-channel responses.
FallbackExactlyK ==
    fn = "combine" =>
        /\ Len(fres.schedules) = Len(fargs)
        /\ \A i \in DOMAIN fargs :
              Cardinality({j \in DOMAIN fres.schedules :
                              EntryIdOf(fres.schedules[j]) = fargs[i][1]}) = 1

\* C2 amended: the combined payload has at least k entries; every channel
\* whose response had no entry has exactly one synthesized empty entry; and
\* when every response has at most one entry, there are exactly k entries,
\* and the i-th is recorded for the i-th identifier if the returned entries
\* name the channel they were requested for.
FallbackCompleteness ==
    fn = "combine" =>
        LET k == Len(fargs)
            out == fres.schedules
            n(i) == Len(schedules_list(fargs[i][2]))
        IN /\ Len(out) >= k
           /\ fres._combined
           /\ \A i \in 1..k :
                 n(i) = 0 =>
                    Cardinality({j \in DOMAIN out : out[j] =
                        [scheduleChannelId |-> fargs[i][1], contents |-> <<>>]}) = 1
           /\ \A i \in 1..k :
                 n(i) > 0 =>
                    \E j \in DOMAIN out :
                       SubSeq(out, j, j + n(i) - 1) = fargs[i][2].schedules
           /\ (\A i \in 1..k : n(i) <= 1) =>
                 /\ Len(out) = k
                 /\ (\A i \in 1..k :
                        n(i) = 1 => fargs[i][2].schedules[1].channelId = fargs[i][1])
                      => \A i \in 1..k : EntryIdOf(out[i]) = fargs[i][1]

FallbackCompletenessWitness ==
    /\ fn = "combine"
    /\ Len(fargs) >= 2
    /\ \E i \in DOMAIN fargs : schedules_list(fargs[i][2]) = <<>>
    /\ \E i \in DOMAIN fargs : Len(schedules_list(fargs[i][2])) = 1
    /\ \A i \in DOMAIN fargs : Len(schedules_list(fargs[i][2])) <= 1

\* C3: for a non-empty batch, outside the case of no overlap with at least
\* as many entries as requested identifiers, the validator accepts exactly
\* when overlap / requested >= min_ratio; with 10 requested at 0.75 it
\* accepts 8 present and rejects 7 present.
CoverageAcceptance ==
    fn = "validate" =>
        LET nreq == Len(fargs.requested)
            overlap == Cardinality(fargs.present)
            nentries == Len(fargs.payload.schedules)
        IN /\ (nreq > 0 /\ ~(overlap = 0 /\ nentries >= nreq)) =>
                 (fres <=> overlap * 100 >= fargs.min_ratio * nreq)
           /\ (nreq = 10 /\ fargs.min_ratio = 75 /\ overlap = 8) => fres
           /\ (nreq = 10 /\ fargs.min_ratio = 75 /\ overlap = 7) => ~fres

CoverageAcceptanceWitness ==
    /\ fn = "validate"
    /\ Len(fargs.requested) = 10
    /\ Cardinality(fargs.present) = 7
    /\ fargs.min_ratio = 75
    /\ fres = FALSE

\* an error the retry policy of the engine classes as not retryable
NonRetryable(err) ==
    \/ err.type = "JSONDecodeError"
    \/ err.type = "RuntimeError" /\ err.status_code \in (400..499) \ {408, 425, 429}

\* C4: a 4xx outside {408, 425, 429} or an undecodable 200 body ends the
\* request on that attempt: no backoff sleep follows it and no further GET
\* is prepared.
NonRetryableFailsImmediately ==
    NonRetryable(last_err) => (pc = "aborted" /\ Len(sleeps) < Len(gets))

\* C5: a request is given retries + 1 attempts; every backoff sleep lies
\* between two attempts; a request whose attempts all fail ends after exactly
\* retries + 1 GETs and retries sleeps, reporting the last error.
RetryCount ==
    LET A == args.retries + 1
    IN /\ Len(gets) <= A
       /\ Len(sleeps) <= A - 1
       /\ pc = "get" => (Len(sleeps) = Len(gets) /\ Len(gets) = attempt)
       /\ (pc = "aborted" /\ GetFailure) =>
             /\ Len(gets) = A
             /\ Len(sleeps) = A - 1
             /\ error.cause = last_err
             /\ last_err.status_code = gets[A]

RetryCountWitness ==
    /\ pc = "aborted"
    /\ GetFailure
    /\ args.retries = 2
    /\ gets = <<503, 503, 503>>
    /\ Len(sleeps) = 2
    /\ error.cause.status_code = 503

\* C6: a run without fallback over W windows and N identifiers in batches of
\* B writes a combined document with W * ceil(N / B) payloads, in
\* window-major, batch-minor order, and meta.channel_ids_count = N.
EndToEndOrdering ==
    (pc = "done" /\ fallback_count = 0 /\ args.days > 0 /\ args.window_hours > 0
       /\ args.max_channels > 0) =>
        LET N == Cardinality(Range(args.rid_rows) \ {None})
            B == args.max_channels
            S == args.days * 24
            W == CHOOSE w \in 1..S : (w - 1) * args.window_hours < S
                                        /\ S <= w * args.window_hours
            nb == CHOOSE b \in 1..N : (b - 1) * B < N /\ N <= b * B
            ps == combined_file.payloads
        IN /\ Len(ps) = W * nb
           /\ combined_file.meta.channel_ids_count = N
           /\ \A j \in 1..Len(ps) :
                LET w == (j - 1) \div nb
                    b == (j - 1) % nb
                IN /\ ps[j]._window.start_ms
                        = (args.now + w * args.window_hours) * 3600000
                   /\ ps[j]._window.batch_size = IF b < nb - 1 THEN B ELSE N - (nb - 1) * B

EndToEndOrderingWitness ==
    /\ pc = "done"
    /\ fallback_count = 0
    /\ n_windows = 2
    /\ Len(channel_ids) = 3
    /\ args.max_channels = 2
    /\ Len(combined_file.payloads) = 4

\* C7: when a per-channel request of a decomposed batch fails for good, the
\* run is aborted and nothing is recorded for that work item: no line, no
\* payload, no combined document, whatever channels had already answered.
FallbackFailureNotMasked ==
    (pc = "aborted" /\ GetFailure /\ mode = "single") =>
        /\ rc # 0
        /\ fallback_count >= 1
        /\ Len(wf_lines) = ItemsBefore
        /\ Len(all_payloads) = ItemsBefore
        /\ wf_lines = all_payloads
        /\ combined_file = InitialCombined

FallbackFailureNotMaskedWitness ==
    /\ pc = "aborted"
    /\ GetFailure
    /\ mode = "single"
    /\ Len(chan_payloads) >= 1
    /\ Len(wf_lines) >= 1

\* C8: the line of every resolved work item is on disk before the next
\* request is issued, and after a kill the disk holds complete lines for
\* exactly the work items resolved so far.
DurablePrefix ==
    /\ pc = "get" => wf_durable = Len(wf_lines)
    /\ pc = "killed" => (wf_durable = Len(wf_lines) /\ ~wf_torn)

\* C9: for a positive span S and window size W the windows are ceil(S / W)
\* non-empty half-open intervals, the first starting at the start instant,
\* each starting where the previous one ends, the last ending at start + S,
\* none longer than W; every instant of [start, start + S) lies in exactly
\* one of them.
WindowCoverage ==
    fn = "windows" =>
        LET S == fargs.days * 24
            W == fargs.window_hours
            n == Len(fres)
        IN /\ n >= 1
           /\ (n - 1) * W < S /\ S <= n * W
           /\ \A i \in 1..n : fres[i][1] < fres[i][2] /\ fres[i][2] - fres[i][1] <= W
           /\ \A i \in 1..(n - 1) : fres[i][2] - fres[i][1] = W
           /\ fres[1][1] = fargs.start
           /\ \A i \in 1..(n - 1) : fres[i + 1][1] = fres[i][2]
           /\ fres[n][2] = fargs.start + S
           /\ \A t \in fargs.start..(fargs.start + S - 1) :
                 Cardinality({i \in 1..n : fres[i][1] <= t /\ t < fres[i][2]}) = 1
           /\ \A i \in 1..n : fres[i][1] >= fargs.start /\ fres[i][2] <= fargs.start + S

WindowCoverageWitness ==
    /\ fn = "windows"
    /\ Len(fres) >= 3
    /\ fres[Len(fres)][2] - fres[Len(fres)][1] < fargs.window_hours

\* C10: the channel list is the sorted, deduplicated identifiers of the
\* input; for N identifiers and batch size B > 0 the batcher yields
\* ceil(N / B) non-empty batches, all of size B except possibly the last,
\* whose concatenation is the channel list, every identifier in one batch.
BatchPartition ==
    fn = "chunked" =>
        LET items == fargs.items
            N == Len(items)
            B == fargs.n
            nb == Len(fres)
        IN /\ \A i \in 1..(N - 1) : items[i] < items[i + 1]
           /\ Range(items) \subseteq Range(fargs.rid_rows) \ {None}
           /\ fargs.playable = {} => Range(items) = Range(fargs.rid_rows) \ {None}
           /\ (nb - 1) * B < N \/ (N = 0 /\ nb = 0)
           /\ N <= nb * B
           /\ Flatten(fres) = items
           /\ \A j \in 1..nb : Len(fres[j]) >= 1 /\ Len(fres[j]) <= B
           /\ \A j \in 1..(nb - 1) : Len(fres[j]) = B
           /\ \A id \in Range(items) :
                 Cardinality({jk \in (1..nb) \X (1..B) :
                                 jk[2] <= Len(fres[jk[1]]) /\ fres[jk[1]][jk[2]] = id}) = 1

BatchPartitionWitness ==
    /\ fn = "chunked"
    /\ Len(fres) >= 3
    /\ Len(fres[Len(fres)]) < fargs.n
    /\ fargs.n >= 2

\* a response with at least as many schedule entries as identifiers were
\* requested, none of them naming a requested identifier
ZeroOverlapLarge(p, req) ==
    /\ "schedules" \in DOMAIN p
    /\ Len(p.schedules) >= Len(req)
    /\ \A i \in DOMAIN p.schedules : EntryIdOf(p.schedules[i]) \notin Range(req)

\* C11: a multi-channel response with at least as many schedule entries as
\* the batch has identifiers, sharing no identifier with the batch, is
\* accepted whatever the minimum ratio: the work item never enters the
\* per-channel fallback and its recorded payload carries no fallback flag.
ZeroOverlapException ==
    /\ mode = "single" => ~ZeroOverlapLarge(payload, batch)
    /\ (pc = "loop" /\ batch_i >= 1 /\ ZeroOverlapLarge(payload, batch)) =>
          "_fallback_single_channel" \notin DOMAIN payload

ZeroOverlapExceptionWitness ==
    /\ pc = "loop" /\ batch_i >= 1
    /\ Len(batch) >= 2
    /\ args.min_ratio = MinRatioDefault
    /\ ZeroOverlapLarge(payload, batch)
    /\ payload = all_payloads[Len(all_payloads)]
    /\ "_fallback_single_channel" \notin DOMAIN payload
    /\ fallback_count = 0 /\ req_count = Len(all_payloads)

\* the configurations the run is to refuse: a non-positive span, window size
\* or batch size, or an empty channel set
BadConfiguration ==
    \/ args.days <= 0
    \/ args.window_hours <= 0
    \/ args.max_channels <= 0
    \/ build_channel_id_list(args.rid_rows, FALSE, {}, FALSE) = <<>>

\* C12: with a non-positive span, window size or batch size, or an empty
\* channel set, the run ends with a failure status before any HTTP request
\* is issued and never writes the combined document.
ConfigErrorsPrecedeNetwork ==
    BadConfiguration =>
        /\ net_gets = 0
        /\ pc \notin {"finalize", "done"}
        /\ combined_file = InitialCombined
        /\ pc \in {"exit", "aborted"} => rc # 0

\* the un-jittered delay before attempt k + 1 under a capped backoff
CappedDelay(base, cap, k) == Min(cap, base * Pow2(k - 1))

\* C13: the k-th delay slept by a request equals min(cap, base * 2^(k-1))
\* plus a jitter of at most a quarter of that value, so no delay exceeds
\* 1.25 * cap and the un-jittered delays never decrease.
BackoffBounds ==
    \A k \in DOMAIN sleeps :
        LET m == CappedDelay(args.retry_backoff, BackoffCapDefault, k)
        IN /\ 4 * m <= 4 * sleeps[k]
           /\ 4 * sleeps[k] <= 5 * m
           /\ 4 * sleeps[k] <= 5 * BackoffCapDefault
           /\ k > 1 => CappedDelay(args.retry_backoff, BackoffCapDefault, k - 1) <= m

\* the work item being executed (or last executed), counted from 1, and the
\* number of work items of the run
ItemIndex == wi * total_batches + batch_i

TotalItems == n_windows * total_batches

\* the successors the run state machine allows; "killed" is the process
\* being killed by its environment, which no program state machine excludes
NextPhases(p) ==
    CASE p = "main" -> {"open", "exit", "aborted", "killed"}
      [] p = "open" -> {"loop", "aborted", "killed"}
      [] p = "loop" -> {"loop", "get", "finalize", "aborted", "killed"}
      [] p = "get" -> {"get", "loop", "aborted", "killed"}
      [] p = "finalize" -> {"done", "aborted", "killed"}
      [] OTHER -> {}

RunStep ==
    /\ pc' \in NextPhases(pc)
    \* Executing(i) for i = 1..total, one after the other, each begun only
    \* when the previous one has resolved
    /\ pc' \in {"loop", "get"} /\ pc \in {"loop", "get"} =>
          /\ ItemIndex' \in {ItemIndex, ItemIndex + 1}
          /\ ItemIndex' <= TotalItems
          /\ ItemIndex' = ItemIndex + 1 =>
                (pc = "loop" /\ pc' = "get" /\ Len(all_payloads) = ItemIndex)
          /\ Len(all_payloads') \in {ItemIndex' - 1, ItemIndex'}
    \* Finalizing only after work item `total` has resolved
    /\ pc' = "finalize" => (pc = "loop" /\ ItemIndex = TotalItems
                              /\ Len(all_payloads) = TotalItems)
    /\ pc' = "done" => (pc = "finalize" /\ rc' = 0
                          /\ Len(combined_file'.payloads) = TotalItems)
    \* a request that has used its last attempt aborts the run at once
    /\ (pc = "get" /\ net_gets' = net_gets + 1 /\ Len(gets') = args.retries + 1
          /\ gets'[Len(gets')] # 200) => (pc' = "aborted" /\ rc' # 0 /\ GetFailure')
    \* requests and lines belong to Executing, the combined document to
    \* Finalizing
    /\ net_gets' # net_gets => pc = "get"
    /\ wf_lines' # wf_lines => pc \in {"open", "get"}
    /\ combined_file' # combined_file => pc = "finalize"

\* C14: a run moves Planning -> Executing(i), i = 1..total in increasing
\* order -> Finalizing -> Done; Finalizing is entered only after the last
\* work item has resolved; the first unrecoverable work-item error moves the
\* run from Executing to Aborted; Done and Aborted are terminal (no step
\* leaves them, so nothing is requested, appended or written afterwards).
RunStateMachine == [][RunStep]_vars

RunStateMachineWitness ==
    /\ pc = "done"
    /\ n_windows >= 2
    /\ TotalItems >= 2
    /\ Len(combined_file.payloads) = TotalItems
    /\ fallback_count >= 1

\* the step that records the payload of the work item in flight
Recorded ==
    /\ pc = "get"
    /\ Len(wf_lines') = Len(wf_lines) + 1

AnnotationStep ==
    /\ Recorded =>
          LET line == wf_lines'[Len(wf_lines')]
              tag == line._window
          IN /\ all_payloads' = Append(all_payloads, line)
             /\ DOMAIN tag = {"start_utc", "end_utc", "start_ms", "end_ms", "batch_size"}
             /\ tag.start_utc = start + wi * window
             /\ tag.end_utc = Min(end, start + (wi + 1) * window)
             /\ tag.start_ms = tag.start_utc * MsPerHour
             /\ tag.end_ms = tag.end_utc * MsPerHour
             /\ tag.start_ms = params.startTime
             /\ tag.end_ms = params.endTime
             /\ tag.batch_size = Len(batch)
             /\ batch = Batches[batch_i]
             /\ "_fallback_single_channel" \in DOMAIN line <=> mode = "single"
             /\ mode = "single" => ~validate_multi_channel(payload, batch, args.min_ratio)
             /\ mode = "multi" => validate_multi_channel(line, batch, args.min_ratio)
    /\ pc' = "done" => combined_file'.payloads = all_payloads

\* C15: every payload recorded in the line-stream and in the combined
\* document carries the window bounds of its work item, as instants and as
\* the epoch milliseconds sent in its requests, and the size of the whole
\* requested batch, and carries the fallback flag exactly when the
\* validator rejected the batch response of that work item.
ResultAnnotation == [][AnnotationStep]_vars

ResultAnnotationWitness ==
    /\ pc = "loop" /\ batch_i >= 1
    /\ Len(batch) >= 2
    /\ payload = wf_lines[Len(wf_lines)]
    /\ "_fallback_single_channel" \in DOMAIN payload
    /\ payload._window.batch_size = Len(batch)
    /\ payload._window.end_utc - payload._window.start_utc < window

\* C16: a run that fails on a request ends with a nonzero status and a final
\* error naming the window and batch that failed, the remote status, and
\* the numbers of requests issued and of fallbacks triggered so far.
FailureReport ==
    (pc = "aborted" /\ GetFailure) =>
        /\ rc # 0
        /\ error.cause.type = "RuntimeError" => error.cause.status_code >= 400
        /\ {"window", "batch", "req_count", "fallback_count"} \subseteq DOMAIN error
        /\ error.window = wi + 1
        /\ error.batch = batch_i
        /\ error.req_count = req_count
        /\ error.fallback_count = fallback_count

\* the lines of the line-stream left by an earlier run
StaleLines == {j \in DOMAIN wf_lines : "stale" \in DOMAIN wf_lines[j]}

\* C17 as stated: after any run, successful or aborted, the line-stream
\* contains lines of that run only.
MostRecentRunOnly ==
    pc \in {"done", "aborted", "exit"} => StaleLines = {}

\* C17: a run that completes planning truncates the line-stream before its
\* first request, so the line-stream never holds lines of two runs and
\* after such a run holds lines of that run only; a run that ends during
\* planning leaves the line-stream of the earlier run untouched.
RunsNotIntermixed ==
    /\ StaleLines = {} \/ StaleLines = DOMAIN wf_lines
    /\ pc \in {"loop", "get", "finalize", "done"} => StaleLines = {}
    /\ net_gets > 0 => StaleLines = {}
    /\ (pc # "killed" /\ StaleLines = {}) => wf_lines = all_payloads
    /\ StaleLines # {} =>
          /\ wf_lines = <<StaleLine>>
          /\ pc \in {"main", "open", "exit", "aborted", "killed"}
          /\ all_payloads = <<>>

RunsNotIntermixedWitness ==
    /\ args.prior
    /\ pc = "aborted" /\ GetFailure
    /\ Len(wf_lines) >= 1
    /\ StaleLines = {}
    /\ combined_file = StaleDoc

\* C18: in every playback map file the run writes, rows fetched and rows
\* carried over alike, a row has playable = "true" (in any letter case)
\* exactly when its streamURL is not empty.
PlayableRule ==
    out_writes > 0 =>
        \A i \in DOMAIN out_file :
            Lower(out_file[i].playable) = "true" <=> out_file[i].streamURL # ""

\* C19: when the authorization request of a channel fails (whatever the
\* failure, after its retries) the run records a row with playable =
\* "false" for that channel, appends a failure record for it and goes on
\* with the next channel; after a completed run every channel that was to
\* be fetched has a row in the written playback map.
FailureRows ==
    /\ (idx > 1 /\ pb_j = NoJson) =>
          LET c == todo[idx - 1]
          IN /\ c \in DOMAIN rows_by_ccid
             /\ rows_by_ccid[c].playable = "false"
             /\ rows_by_ccid[c].streamURL = ""
             /\ fail_file # <<>>
             /\ fail_file[Len(fail_file)].ccid = c
             /\ fail_file[Len(fail_file)].error \in
                   {"request_error", "json_parse_error", "http_error", "unknown_error"}
             /\ pb_pc \in {"get", "flush", "replace", "final", "final_replace", "done",
                          "killed"}
             /\ pb_pc = "get" => idx <= Len(todo)
             /\ pb_pc \in {"final", "final_replace", "done"} => idx = Len(todo) + 1
    /\ pb_pc = "done" =>
          /\ pb_rc = 0
          /\ idx = Len(todo) + 1
          /\ \A i \in DOMAIN todo :
                \E k \in DOMAIN out_file : out_file[k].ccid = todo[i]

FailureRowsWitness ==
    /\ pb_pc = "done"
    /\ Len(todo) >= 2
    /\ Len(fail_file) = 1
    /\ fail_file[1].ccid = todo[1]
    /\ fail_file[1].error = "http_error"
    /\ fail_file[1].auth_status = 503
    /\ rows_by_ccid[todo[1]].playable = "false"
    /\ rows_by_ccid[todo[2]].playable = "true"
    /\ Len(out_file) >= 2

\* the single-channel requests the recorded payloads account for: the batch
\* size of every payload that carries the fallback flag
RECURSIVE FallbackRequests(_)
FallbackRequests(payloads) ==
    IF payloads = <<>> THEN 0
    ELSE LET last == payloads[Len(payloads)]
         IN FallbackRequests(SubSeq(payloads, 1, Len(payloads) - 1))
              + (IF "_fallback_single_channel" \in DOMAIN last
                 THEN last._window.batch_size ELSE 0)

\* C20: single-channel requests are issued for a work item exactly when the
\* validator rejected its batch response; then one request per identifier
\* of the batch, in batch order, each for the window bounds and flags of
\* the batch request and with the same number of attempts allowed; an
\* accepted batch response is followed by no single-channel request.
FallbackShape ==
    /\ (pc = "get" /\ mode = "single") =>
          /\ ~validate_multi_channel(payload, batch, args.min_ratio)
          /\ ci \in 1..Len(batch)
          /\ Len(chan_payloads) = ci - 1
          /\ \A i \in 1..(ci - 1) : chan_payloads[i][1] = batch[i]
          /\ params = [startTime |-> (start + wi * window) * MsPerHour,
                       endTime |-> Min(end, start + (wi + 1) * window) * MsPerHour,
                       include4K |-> args.include4k,
                       is4KCompatible |-> args.is4kcompatible,
                       channelIds |-> <<batch[ci]>>]
          /\ Len(gets) <= args.retries
          /\ req_count = Len(all_payloads) + FallbackRequests(all_payloads) + 1 + ci
    /\ (pc = "get" /\ mode = "multi") =>
          /\ params.channelIds = batch
          /\ req_count = Len(all_payloads) + FallbackRequests(all_payloads) + 1
    /\ (pc = "loop" /\ batch_i >= 1) =>
          /\ mode = "multi"
          /\ req_count = Len(all_payloads) + FallbackRequests(all_payloads)
          /\ "_fallback_single_channel" \notin DOMAIN payload =>
                validate_multi_channel(payload, batch, args.min_ratio)
          /\ "_fallback_single_channel" \in DOMAIN payload =>
                /\ Len(chan_payloads) = Len(batch)
                /\ \A i \in 1..Len(batch) : chan_payloads[i][1] = batch[i]

FallbackShapeWitness ==
    /\ pc = "get" /\ mode = "single"
    /\ ci = 2
    /\ Len(chan_payloads) = 1
    /\ fallback_count >= 1
    /\ wi = 1
    /\ params.endTime - params.startTime < window * MsPerHour

\* C21: every resolved work item contributes exactly one line and one
\* accumulator entry, whatever the retries and whether or not fallback was
\* used; the accumulator equals the lines written so far, and on success
\* the payloads of the combined document are the lines, in the same order.
NoDuplicationNoLoss ==
    /\ pc \in {"loop", "get", "finalize", "done"} =>
          /\ all_payloads = wf_lines
          /\ \A k \in DOMAIN wf_lines : wf_lines[k]._window = TagOfItem(k)
    /\ (pc = "aborted" /\ StaleLines = {}) => all_payloads = wf_lines
    /\ pc = "loop" => Len(wf_lines) = ItemIndex
    /\ pc = "get" => Len(wf_lines) = ItemIndex - 1
    /\ pc \in {"finalize", "done"} => Len(wf_lines) = TotalItems
    /\ pc = "done" => combined_file.payloads = wf_lines

NoDuplicationNoLossWitness ==
    /\ pc = "loop"
    /\ Len(all_payloads) >= 2
    /\ fallback_count >= 1
    /\ net_gets > req_count
    /\ all_payloads = wf_lines

\* C22: a run that aborts leaves the combined document of an earlier
\* successful run unchanged, so the combined document on disk is always the
\* complete output of the most recent successful run and never holds data
\* of an aborted run.
StaleArtifactAfterAbort ==
    /\ pc = "aborted" => combined_file = InitialCombined
    /\ pc # "killed" =>
          \/ combined_file = InitialCombined
          \/ pc = "done" /\ combined_file = [meta |-> meta, payloads |-> all_payloads]

(***************************************************************************)
(* webapp.py: run_refresh (lines 100-180) and api_refresh (lines 291-305). *)
(* The scheduler's job, the delayed startup thread and the thread of each  *)
(* manual POST all call run_refresh; the module has no lock, so the steps  *)
(* of the threads interleave at every read and write of the globals.       *)
(***************************************************************************)
nonWebVars == <<args, pc, rc, error, planVars, loopVars, fallVars, reqVars, fileVars, fnVars,
                pbVars, drVars>>

InitWeb == RunStart(DefaultArgs) /\ FnIdle /\ PbIdle /\ DrIdle /\ WebBoot(0)

\* exit codes of the daily_refresh.py subprocess
ReturnCodes == {0, 1}

\* the subprocesses whose stdout a run_refresh is still reading
Attached == Cardinality({t \in WebThreads : t_pc[t] = "stream"})

\* lines 533-554: the cron trigger fires the job, or the startup thread's sleep ends
WebTrigger(t) ==
    /\ t \in WebThreads \ PostThreads
    /\ t_pc[t] = "idle" /\ n_calls < MaxCalls
    /\ n_calls' = n_calls + 1
    /\ t_pc' = [t_pc EXCEPT ![t] = "check"]
    /\ UNCHANGED <<refresh_running, last_refresh_status, t_returncode, t_assigned,
                   last_response, n_procs, nonWebVars>>

\* lines 291-305: api_refresh answers 409, or starts a thread and answers 200
WebPost(t) ==
    /\ t \in PostThreads
    /\ t_pc[t] = "idle" /\ n_calls < MaxCalls
    /\ n_calls' = n_calls + 1
    /\ IF refresh_running
       THEN /\ last_response' = 409
            /\ UNCHANGED t_pc
       ELSE /\ last_response' = 200
            /\ t_pc' = [t_pc EXCEPT ![t] = "check"]
    /\ UNCHANGED <<refresh_running, last_refresh_status, t_returncode, t_assigned,
                   n_procs, nonWebVars>>

\* where a thread is once its run_refresh returned: the startup thread ends
AfterReturn(t) == IF t = <<"startup", 0>> THEN "exited" ELSE "idle"

\* lines 102-105: the read of refresh_running
WebCheck(t) ==
    /\ t_pc[t] = "check"
    /\ t_pc' = [t_pc EXCEPT ![t] = IF refresh_running THEN AfterReturn(t) ELSE "set"]
    /\ UNCHANGED <<refresh_running, last_refresh_status, t_returncode, t_assigned,
                   last_response, n_procs, n_calls, nonWebVars>>

\* a statement of the try block assigns last_refresh_status and control goes to finally
Assign(t, status) ==
    /\ last_refresh_status' = status
    /\ t_assigned' = [t_assigned EXCEPT ![t] = status]
    /\ t_pc' = [t_pc EXCEPT ![t] = "finally"]

\* lines 107-136: the write of refresh_running, the log header, the start of the
\* subprocess
WebPopen(t) ==
    /\ t_pc[t] = "set"
    /\ refresh_running' = TRUE
    /\ n_procs' = n_procs + 1
    /\ t_pc' = [t_pc EXCEPT ![t] = "stream"]
    /\ UNCHANGED <<last_refresh_status, t_returncode, t_assigned, last_response,
                   n_calls, nonWebVars>>

\* lines 107-136, 176-178: open, write or Popen raised
WebPopenError(t) ==
    /\ t_pc[t] = "set"
    /\ refresh_running' = TRUE
    /\ Assign(t, "error")
    /\ UNCHANGED <<t_returncode, last_response, n_procs, n_calls, nonWebVars>>

\* lines 166-171
StatusOf(returncode) == IF returncode = 0 THEN "success" ELSE "failed"

\* lines 138-171: stdout reached end of file, process.wait returned the exit code, the
\* footer is written (or its write raised, lines 176-178) and the status set
WebStreamExit(t) ==
    /\ t_pc[t] = "stream"
    /\ n_procs' = n_procs - 1
    /\ \E code \in ReturnCodes :
          /\ t_returncode' = [t_returncode EXCEPT ![t] = <<code>>]
          /\ \E status \in {StatusOf(code), "error"} : Assign(t, status)
    /\ UNCHANGED <<refresh_running, last_response, n_calls, nonWebVars>>

\* the timeout branch, were its return to leave run_refresh without the finally clause
WebStreamTimeoutNoFinally(t) ==
    /\ t_pc[t] = "stream"
    /\ n_procs' = n_procs - 1
    /\ last_refresh_status' = "timeout"
    /\ t_pc' = [t_pc EXCEPT ![t] = AfterReturn(t)]
    /\ UNCHANGED <<refresh_running, t_returncode, t_assigned, last_response, n_calls,
                   nonWebVars>>

\* lines 148-157: process.wait timed out, the subprocess is killed; the write of the
\* timeout note may raise (lines 176-178)
WebStreamTimeout(t) ==
    /\ t_pc[t] = "stream"
    /\ t_returncode' = [t_returncode EXCEPT ![t] = <<-1>>]
    /\ n_procs' = n_procs - 1
    /\ \E status \in {"timeout", "error"} : Assign(t, status)
    /\ UNCHANGED <<refresh_running, last_response, n_calls, nonWebVars>>

\* the subprocesses no run_refresh holds any more
Orphans == n_procs - Attached

\* lines 138-145, 176-178: readline or the write of a line raised; nothing stops the
\* subprocess
WebStreamError(t) ==
    /\ t_pc[t] = "stream"
    /\ Orphans < MaxOrphans
    /\ Assign(t, "error")
    /\ UNCHANGED <<refresh_running, t_returncode, last_response, n_procs, n_calls,
                   nonWebVars>>

\* a subprocess that was left behind exits
WebOrphanExit ==
    /\ Orphans > 0
    /\ n_procs' = n_procs - 1
    /\ UNCHANGED <<refresh_running, last_refresh_status, t_pc, t_returncode, t_assigned,
                   last_response, n_calls, nonWebVars>>

\* lines 179-180: finally, and the return
WebFinally(t) ==
    /\ t_pc[t] = "finally"
    /\ refresh_running' = FALSE
    /\ t_returncode' = [t_returncode EXCEPT ![t] = <<>>]
    /\ t_assigned' = [t_assigned EXCEPT ![t] = "None"]
    /\ t_pc' = [t_pc EXCEPT ![t] = AfterReturn(t)]
    /\ UNCHANGED <<last_refresh_status, last_response, n_procs, n_calls, nonWebVars>>

NextWeb ==
    \/ \E t \in WebThreads : WebTrigger(t)
    \/ \E t \in WebThreads : WebPost(t)
    \/ \E t \in WebThreads : WebCheck(t)
    \/ \E t \in WebThreads : WebPopen(t)
    \/ \E t \in WebThreads : WebPopenError(t)
    \/ \E t \in WebThreads : WebStreamExit(t)
    \/ \E t \in WebThreads : WebStreamTimeout(t)
    \/ \E t \in WebThreads : WebStreamError(t)
    \/ WebOrphanExit
    \/ \E t \in WebThreads : WebFinally(t)

SpecWeb == InitWeb /\ [][NextWeb]_vars

\* C23: at most one daily_refresh subprocess runs at any moment and refresh_running is
\* True whenever one runs, which is the test on which api_refresh answers a POST
\* with 409 and starts nothing
SingleRefresh ==
    /\ n_procs <= 1
    /\ n_procs >= 1 => refresh_running

\* the run_refresh invocations that have set the flag and not yet returned
Holders == {t \in WebThreads : t_pc[t] \in {"stream", "finally"}}

Statuses == {"success", "failed", "timeout", "error"}

MaxLiveWork == 6

InitLive ==
    /\ \E a \in {b \in ArgChoices : Work(b) <= MaxLiveWork} : RunStart(a)
    /\ FnIdle /\ PbIdle /\ ExtIdle

SpecLive == InitLive /\ [][Next]_vars /\ WF_vars(Next)

\* (W * ceil(N/B) + W * N) * (R + 1)
GetBound ==
    (n_windows * total_batches + n_windows * Len(channel_ids)) * (args.retries + 1)

Terminal == {"done", "aborted", "exit", "killed"}

TerminationStep ==
    /\ ItemIndex' >= ItemIndex
    /\ net_gets' # net_gets =>
          /\ net_gets' = net_gets + 1
          /\ pc = "get"
          /\ Len(wf_lines) = ItemIndex - 1

\* C24: every run ends (done, aborted, exited on a configuration error, or killed)
\* after at most (W * ceil(N/B) + W * N) * (R + 1) GETs; the work-item index only
\* increases and a GET is only issued for the work item that has not resolved yet
Termination ==
    /\ [](net_gets <= GetBound)
    /\ [][TerminationStep]_vars
    /\ <>(pc \in Terminal)

TerminationWitness ==
    /\ pc = "done"
    /\ net_gets = GetBound
    /\ net_gets >= 4
    /\ fallback_count >= 1

\* a safe_get_json call is between two of its GETs
CallOpen == pb_pc = "get" /\ pb_attempt > 1

\* the latest safe_get_json call has returned
CallEnded == ~CallOpen /\ pb_pc # "killed"

Retryable(g) == g.exc \/ g.status_code \in {408, 425, 429, 500, 502, 503, 504}

\* the status code of the last answer among g that is not an exception
RECURSIVE LastHttpStatus(_)
LastHttpStatus(g) ==
    IF g = <<>> THEN None
    ELSE IF ~g[Len(g)].exc THEN g[Len(g)].status_code
    ELSE LastHttpStatus(SubSeq(g, 1, Len(g) - 1))

ErrorOf(g) ==
    IF g.exc THEN "request_error"
    ELSE IF g.status_code = 200 /\ ~g.decodable THEN "json_parse_error"
    ELSE IF g.status_code # 200 THEN "http_error"
    ELSE ""

\* C25: safe_get_json issues at most `attempts` GETs; a GET is followed by another
\* one only when it raised a request exception or was answered with a status in
\* {408, 425, 429, 500, 502, 503, 504}, and then after one sleep of the capped delay
\* plus at most a quarter of it; the last GET of a call is followed by no sleep, and
\* the call reports the status and the error of what it observed last
RetryPolicy ==
    LET n == Len(pb_gets)
    IN /\ n <= pb_args.attempts
       /\ \A k \in 1..(n - 1) : Retryable(pb_gets[k]) /\ ErrorOf(pb_gets[k]) # ""
       /\ \A k \in DOMAIN pb_sleeps :
             LET exp == Min(pb_args.backoff_cap, pb_args.backoff_base * Pow2(k - 1))
             IN /\ exp <= pb_args.backoff_cap
                /\ JitterDen * exp <= pb_sleeps[k]
                /\ pb_sleeps[k] <= JitterDen * exp + exp
       /\ CallOpen =>
             /\ n = pb_attempt - 1
             /\ Len(pb_sleeps) = n
             /\ Retryable(pb_gets[n])
       /\ (CallEnded /\ n >= 1) =>
             /\ Len(pb_sleeps) = n - 1
             /\ ErrorOf(pb_gets[n]) # "" => (~Retryable(pb_gets[n]) \/ n = pb_args.attempts)
             /\ pb_error = ErrorOf(pb_gets[n])
             /\ pb_status = LastHttpStatus(pb_gets)
             /\ pb_j = NoJson <=> ErrorOf(pb_gets[n]) # ""

RetryPolicyWitness ==
    /\ CallEnded
    /\ Len(pb_gets) = 2 /\ pb_args.attempts = 2
    /\ pb_gets[1].status_code = 503
    /\ pb_gets[2].exc
    /\ pb_sleeps = <<JitterDen * BackoffCapDefault + BackoffCapDefault>>
    /\ pb_error = "request_error" /\ pb_status = 503

\* the rows the run loaded from the output file, and the channels whose loaded row
\* is playable
LoadedRows == load_playback_map_dedup(pb_args.existing)

PlayableLoaded == {c \in DOMAIN LoadedRows : RowGood(LoadedRows[c])}

\* C29: a channel whose stored row is playable is never requested and its row stays
\* in the map as loaded (with the playable column filled in when it was empty);
\* every other channel of the directory, up to --limit, is requested exactly once
\* in a run; of the rows loaded for one ccid a non-playable one never replaces a
\* playable one
PlaybackResume ==
    /\ \A k \in DOMAIN pb_args.existing :
          RowGood(pb_args.existing[k]) => pb_args.existing[k].ccid \in PlayableLoaded
    /\ idx >= 1 =>
          /\ \A c \in PlayableLoaded :
                /\ c \notin Range(pb_requested)
                /\ rows_by_ccid[c] = backfill_playable_fields(LoadedRows)[c]
                /\ RowGood(rows_by_ccid[c])
                /\ rows_by_ccid[c].streamURL = LoadedRows[c].streamURL
                /\ out_writes > 0 => \E k \in DOMAIN out_file : out_file[k] = rows_by_ccid[c]
          /\ \A i, k \in DOMAIN pb_requested : pb_requested[i] = pb_requested[k] => i = k
          /\ pb_requested = SubSeq(todo, 1, Len(pb_requested))
          /\ LET others == SelectSeq(pb_args.channels, LAMBDA c : c \notin PlayableLoaded)
             IN todo = IF pb_args.limit > 0
                       THEN SubSeq(others, 1, Min(pb_args.limit, Len(others)))
                       ELSE others
          /\ pb_pc \in {"final", "final_replace", "done"} => pb_requested = todo

PlaybackResumeWitness ==
    /\ pb_pc = "done"
    /\ pb_args.channels = <<1, 2>>
    /\ PlayableLoaded = {1}
    /\ pb_requested = <<2>>
    /\ Len(pb_gets) = 1
    /\ Len(out_file) = 2
    /\ out_file[1] = pb_args.existing[1]

\* the flushes write_playback_map has been called for once n channels are processed
FlushCount(n) ==
    IF pb_args.flush_every = 0 THEN 0
    ELSE Cardinality({i \in 1..n : i % pb_args.flush_every = 0 \/ i = Len(todo)})

\* C30: the output file only ever changes by the rename of a completely written
\* temporary file over it: it holds the rows it had before the run or every row
\* known at the latest flush, sorted by ccid, also when the run is interrupted; the
\* flushes are those after every flush-every-th channel, after the last channel and
\* at the end of the run
AtomicReplace ==
    /\ out_file = IF out_writes = 0 THEN pb_args.existing ELSE write_playback_map(pb_flushed)
    /\ out_writes > 0 =>
          /\ \A k \in 1..(Len(out_file) - 1) : out_file[k].ccid < out_file[k + 1].ccid
          /\ Len(out_file) = Cardinality(DOMAIN pb_flushed)
    /\ (tmp_file # NoTmp /\ tmp_file.torn) => pb_pc = "killed"
    /\ pb_pc \in {"get", "final"} => out_writes = FlushCount(idx - 1)
    /\ (pb_pc \in {"get", "final"} /\ idx > 1 /\ FlushCount(idx - 1) > FlushCount(idx - 2)) =>
          pb_flushed = rows_by_ccid
    /\ pb_pc \in {"flush", "replace"} => out_writes = FlushCount(idx - 1) - 1
    /\ pb_pc = "final_replace" => out_writes = FlushCount(Len(todo))
    /\ pb_pc = "done" =>
          /\ out_writes = FlushCount(Len(todo)) + 1
          /\ out_file = write_playback_map(rows_by_ccid)

AtomicReplaceWitness ==
    /\ pb_pc = "killed"
    /\ tmp_file # NoTmp /\ tmp_file.torn /\ Len(tmp_file.rows) = 1
    /\ out_writes = 1
    /\ Len(out_file) = 2
    /\ idx = 3

(***************************************************************************)
(* daily_refresh.py: main                                                  *)
(*                                                                         *)
(* main runs the sub-scripts one after the other with subprocess.run.  The *)
(* scripts are those the --repo folder holds and main sees nothing of a    *)
(* script but its exit code, which is an input of each step.               *)
(***************************************************************************)
nonDrVars == <<args, pc, rc, error, planVars, loopVars, fallVars, reqVars, fileVars, fnVars,
               pbVars, webVars>>

\* the command line and what main finds on disk and in the environment:
\* --auto-login and --headless are store_true options with default True and
\* --browser has a default, so the three are set in every run
DrArgChoices ==
    [auth_exists : BOOLEAN, username : BOOLEAN, password : BOOLEAN,
     schedule_include_all : BOOLEAN, no_dedupe : BOOLEAN,
     emit_channel_exports : BOOLEAN]

InitDaily ==
    /\ RunStart(DefaultArgs) /\ FnIdle /\ PbIdle /\ WebIdle
    /\ dr_args \in DrArgChoices
    /\ dr_pc = "main" /\ dr_rc = -1 /\ dr_i = 0
    /\ dr_ran = <<>> /\ dr_log = <<>>

\* exit codes of a sub-script: success, a failure of the script, a command
\* line its argparse parser rejects
DrExitCodes == {0, 1, 2}

Stages == <<"fetch_allchannels_map", "fetch_dtv_schedule", "build_dtv_xmltv",
            "build_channels_exports">>

CaptureCmd ==
    [script |-> "capture_auth_context",
     opts |-> {"--out-path", "--auto-login", "--headless", "--browser"}]

AllchannelsCmd ==
    [script |-> Stages[1], opts |-> {"--auth-context", "--out-dir", "--out-csv"}]

ScheduleCmd ==
    [script |-> Stages[2],
     opts |-> {"--out-json", "--days", "--window-hours", "--max-channels", "--timeout",
               "--retries", "--retry-backoff"}
              \cup (IF dr_args.schedule_include_all THEN {"--include-all"} ELSE {})
              \cup {"--auto-login", "--headless", "--browser"}]

XmltvCmd ==
    [script |-> Stages[3],
     opts |-> {"--schedule-json", "--allchannels", "--out-xml"}
              \cup (IF dr_args.no_dedupe THEN {} ELSE {"--dedupe"})]

ExportsCmd ==
    [script |-> Stages[4],
     opts |-> {"--allchannels", "--out-m3u", "--url-mode"}
              \cup (IF dr_args.emit_channel_exports
                    THEN {"--out-json", "--out-xml"} ELSE {"--only-m3u"})]

StageCmd(i) ==
    CASE i = 1 -> AllchannelsCmd
      [] i = 2 -> ScheduleCmd
      [] i = 3 -> XmltvCmd
      [] OTHER -> ExportsCmd

\* _run raises SystemExit(returncode) when the sub-script exits non-zero
RunRaisesNever(code) == FALSE
RunRaises(code) == code # 0

Ran(cmd, code) == Append(dr_ran, [script |-> cmd.script, opts |-> cmd.opts, code |-> code])

DrReturn(code) == dr_pc' = "exit" /\ dr_rc' = code

\* Step 0: the auth context file
DrAuthCheck ==
    /\ dr_pc = "main"
    /\ IF dr_args.auth_exists
       THEN /\ dr_pc' = "stage" /\ dr_i' = 1
            /\ dr_log' = Append(dr_log, "Using existing auth_context")
            /\ UNCHANGED dr_rc
       ELSE /\ dr_log' = Append(dr_log, "AUTH CONTEXT NOT FOUND")
            /\ IF ~dr_args.username \/ ~dr_args.password
               THEN DrReturn(1)
               ELSE dr_pc' = "capture" /\ UNCHANGED dr_rc
            /\ UNCHANGED dr_i
    /\ UNCHANGED <<dr_args, dr_ran, nonDrVars>>

\* the automated login; its SystemExit is caught and main returns 1
DrCapture ==
    /\ dr_pc = "capture"
    /\ \E code \in DrExitCodes :
        /\ dr_ran' = Ran(CaptureCmd, code)
        /\ IF RunRaises(code)
           THEN /\ DrReturn(1)
                /\ dr_log' = dr_log \o <<"=== capture_auth_context ===",
                                         "FAILED: capture_auth_context">>
                /\ UNCHANGED dr_i
           ELSE /\ dr_pc' = "stage" /\ dr_i' = 1
                /\ dr_log' = dr_log \o <<"=== capture_auth_context ===",
                                         "OK: capture_auth_context">>
                /\ UNCHANGED dr_rc
    /\ UNCHANGED <<dr_args, nonDrVars>>

\* one stage: the SystemExit of _run is not caught and ends the process with
\* the exit code of the sub-script
DrStage ==
    /\ dr_pc = "stage" /\ dr_i \in 1..Len(Stages)
    /\ \E code \in DrExitCodes :
        /\ dr_ran' = Ran(StageCmd(dr_i), code)
        /\ IF RunRaises(code)
           THEN /\ DrReturn(code)
                /\ dr_log' = Append(dr_log, "=== " \o Stages[dr_i] \o " ===")
                /\ UNCHANGED dr_i
           ELSE /\ dr_i' = dr_i + 1
                /\ dr_log' = dr_log \o <<"=== " \o Stages[dr_i] \o " ===",
                                         "OK: " \o Stages[dr_i]>>
                /\ UNCHANGED <<dr_pc, dr_rc>>
    /\ UNCHANGED <<dr_args, nonDrVars>>

DrDone ==
    /\ dr_pc = "stage" /\ dr_i = Len(Stages) + 1
    /\ dr_log' = Append(dr_log, "DONE")
    /\ dr_pc' = "done" /\ dr_rc' = 0
    /\ UNCHANGED <<dr_args, dr_i, dr_ran, nonDrVars>>

NextDaily == DrAuthCheck \/ DrCapture \/ DrStage \/ DrDone

SpecDaily == InitDaily /\ [][NextDaily]_vars

\* the options the parser of fetch_dtv_schedule.py requires and accepts
ScheduleRequired == {"--auth-context", "--allchannels", "--out-dir"}

ScheduleAccepted ==
    ScheduleRequired \cup
    {"--playback", "--days", "--window-hours", "--max-channels", "--timeout", "--retries",
     "--retry-backoff", "--min-ratio", "--include-all", "--include4k", "--is4kcompatible",
     "--base-url", "--bearer", "--client-context", "--fis-properties", "--debug"}

\* the sub-scripts main has run as stages, without the login that precedes them
StageRuns == SelectSeq(dr_ran, LAMBDA r : r.script # CaptureCmd.script)

Logged(m) == \E k \in 1..Len(dr_log) : dr_log[k] = m

\* C27: the stages run in the order fetch_allchannels_map, fetch_dtv_schedule,
\* build_dtv_xmltv, build_channels_exports, each only after the one before it
\* exited 0; the first stage that exits non-zero ends the pipeline with that
\* exit code and no later stage runs; DONE is logged and 0 returned only when
\* all four stages exited 0; without an auth context file and without
\* credentials main returns 1 before it runs anything.
PipelineOrder ==
    /\ Len(StageRuns) <= Len(Stages)
    /\ \A k \in 1..Len(StageRuns) :
        /\ StageRuns[k].script = Stages[k]
        /\ k < Len(StageRuns) => StageRuns[k].code = 0
        /\ StageRuns[k].code # 0 => dr_pc = "exit" /\ dr_rc = StageRuns[k].code
    /\ Logged("DONE") <=> dr_pc = "done"
    /\ dr_rc = 0 <=> dr_pc = "done"
    /\ dr_pc = "done" =>
        /\ Len(StageRuns) = Len(Stages)
        /\ \A k \in 1..Len(Stages) : StageRuns[k].code = 0
    /\ (~dr_args.auth_exists /\ ~(dr_args.username /\ dr_args.password) /\ dr_pc # "main") =>
        dr_pc = "exit" /\ dr_rc = 1 /\ dr_ran = <<>>

PipelineOrderWitness ==
    /\ dr_pc = "exit" /\ dr_rc = 2
    /\ Len(dr_ran) = 2
    /\ dr_ran[1].script = Stages[1] /\ dr_ran[1].code = 0
    /\ dr_ran[2].script = Stages[2] /\ dr_ran[2].code = 2
    /\ ~Logged("DONE")

\* C28: the command line with which main starts fetch_dtv_schedule.py has every
\* option the parser of that script requires and only options it accepts.
ScheduleInvocable ==
    \A k \in 1..Len(dr_ran) :
        dr_ran[k].script = Stages[2] =>
            /\ ScheduleRequired \subseteq dr_ran[k].opts
            /\ dr_ran[k].opts \subseteq ScheduleAccepted

====
